---- MODULE Spec2Model ----
(***************************************************************************)
(* Model of the server-side API routes of reference-luna (Next.js API      *)
(* handlers that relay to the Luna backend and to the Plivo SDK).          *)
(*                                                                         *)
(* Conventions                                                             *)
(*  - a JavaScript string is a sequence of tokens (TLA+ strings), so that  *)
(*    template literals are concatenations (\o) and String.replace,        *)
(*    startsWith and URLSearchParams can be computed token by token;       *)
(*  - a JavaScript object is a function from the names of the properties   *)
(*    that are defined to their values; `x === undefined` is               *)
(*    `"x" \notin DOMAIN obj`;                                             *)
(*  - fractions (temperature, top_p, thresholds) are kept in hundredths,   *)
(*    so 0.8 is 80 and 0.95 is 95; counts and milliseconds are integers.   *)
(***************************************************************************)
EXTENDS Integers, Sequences, FiniteSets, TLC

\* the server: process.env and what one handler invocation holds
VARIABLES env, pc, req, outbound, received, responses, locals

\* the dashboard page: its React state, its refs, and the browser objects
\* and pending callbacks its handlers created
VARIABLES ui, refs, browser

serverVars == <<env, pc, req, outbound, received, responses, locals>>

pageVars == <<ui, refs, browser>>

vars == <<env, pc, req, outbound, received, responses, locals, ui, refs, browser>>

(***************************************************************************)
(* Bounds                                                                  *)
(***************************************************************************)
\* largest number of properties a caller supplies in one request
\* (body and query string together)
MaxProvided == 2

(***************************************************************************)
(* Strings and objects                                                     *)
(***************************************************************************)
EmptyObj == <<>>

Range(s) == {s[i] : i \in DOMAIN s}

\* `${x}` of a possibly undefined property: the text "undefined"
Tpl(obj, name) == IF name \in DOMAIN obj THEN obj[name] ELSE <<"undefined">>

\* String(n) / template interpolation of the numbers the model uses
NumStr(n) ==
  CASE n = 0 -> <<"0">>
    [] n = 30 -> <<"30">>
    [] n = 45 -> <<"45">>
    [] n = 70 -> <<"0.7">>
    [] n = 80 -> <<"0.8">>
    [] OTHER -> <<"n">>

\* s.replace(/\/$/, '')
StripTrailingSlash(s) ==
  IF Len(s) > 0 /\ s[Len(s)] = "/" THEN SubSeq(s, 1, Len(s) - 1) ELSE s

\* s.replace(/^https?:\/\//, '')
StripScheme(s) ==
  IF Len(s) > 0 /\ s[1] \in {"http://", "https://"} THEN Tail(s) ELSE s

\* s.startsWith('https')
StartsWithHttps(s) == Len(s) > 0 /\ s[1] = "https://"

\* new URL(u) succeeds: fetch rejects with a TypeError otherwise
IsAbsoluteUrl(u) == Len(u) > 0 /\ u[1] \in {"http://", "https://"}

Bearer(cred) == <<"Bearer ">> \o cred

\* JavaScript truthiness of a number / of a string
TruthyNum(n) == n # 0
TruthyStr(s) == s # <<>>

(***************************************************************************)
(* Process configuration (process.env)                                     *)
(***************************************************************************)
AuthKeyValue == <<"sk_luna_main">>
BackendUrls == {<<"https://", "luna.example">>, <<"https://", "luna.example", "/">>}
PlivoAuthId == <<"MA_PLIVO_ID">>
PlivoAuthToken == <<"plivo_token">>

OptionalVar(name, values) == {EmptyObj} \cup {name :> v : v \in values}

Envs ==
  { a @@ b @@ c @@ d :
      a \in OptionalVar("AUTH_KEY", {AuthKeyValue}),
      b \in OptionalVar("BACKEND_URL", BackendUrls),
      c \in OptionalVar("PLIVO_AUTH_ID", {PlivoAuthId}),
      d \in OptionalVar("PLIVO_AUTH_TOKEN", {PlivoAuthToken}) }

(***************************************************************************)
(* Inbound requests                                                        *)
(***************************************************************************)
Routes == {"ephemeral-key", "offer", "offer-direct", "offer-legacy",
           "ice-servers", "plivo/configure", "plivo/answer", "plivo/call"}

\* the methods tried on a route: an allowed one and one that is not
Methods(route) ==
  IF route = "plivo/answer" THEN {"GET", "POST", "DELETE"} ELSE {"GET", "POST"}

SessionFields == {"custom_prompt", "temperature", "top_p", "top_k",
                  "vad_threshold", "vad_prefix_padding_ms", "vad_silence_duration_ms"}

\* the properties plivo/configure copies from req.body
ConfigureFields == {"instructions", "temperature", "top_p", "top_k", "max_tokens",
                    "vad_threshold", "silence_ms", "voice_ms", "silence_timeout"}

\* the properties callers supply in req.body, per route (offer also gets a
\* session field, which its handler does not read)
BodyFields(route) ==
  CASE route = "ephemeral-key" -> SessionFields
    [] route = "offer" -> {"sdp", "ephemeral_token", "custom_prompt"}
    [] route = "offer-direct" -> {"sdp"} \cup SessionFields
    [] route = "offer-legacy" -> {"sdp"} \cup SessionFields
    [] route = "ice-servers" -> {}
    [] route = "plivo/configure" -> ConfigureFields
    [] route = "plivo/answer" ->
         {"config_token", "temperature", "silence_timeout", "vad_threshold"}
    [] route = "plivo/call" ->
         {"to_number", "from_number", "instructions", "temperature", "silence_timeout"}

QueryFields(route) ==
  IF route = "plivo/answer"
  THEN {"config_token", "temperature", "silence_timeout", "vad_threshold"}
  ELSE {}

\* values a caller may supply: a falsy one and an ordinary one per property
\* (query parameters and form fields of plivo/answer are always strings)
FieldValues(route, name) ==
  IF route = "plivo/answer"
  THEN CASE name = "config_token" -> {<<>>, <<"abc123">>}
         [] name = "temperature" -> {<<>>, <<"0.7">>}
         [] name = "silence_timeout" -> {<<>>, <<"60">>}
         [] name = "vad_threshold" -> {<<>>, <<"0.6">>}
  ELSE CASE name = "sdp" -> {<<>>, <<"v=0 offer">>}
         [] name = "ephemeral_token" -> {<<>>, <<"eph_caller">>}
         [] name = "custom_prompt" -> {<<>>, <<"Be brief">>}
         [] name = "instructions" -> {<<>>, <<"Be brief">>}
         [] name = "to_number" -> {<<>>, <<"+15550001">>}
         [] name = "from_number" -> {<<>>, <<"+15550002">>}
         [] name = "temperature" -> {0, 70}
         [] name = "top_p" -> {0, 90}
         [] name = "top_k" -> {0, 40}
         [] name = "vad_threshold" -> {0, 60}
         [] name = "vad_prefix_padding_ms" -> {0, 200}
         [] name = "vad_silence_duration_ms" -> {0, 700}
         [] name = "max_tokens" -> {0, 256}
         [] name = "silence_ms" -> {0, 400}
         [] name = "voice_ms" -> {0, 100}
         [] name = "silence_timeout" -> {0, 45}

\* the objects with at most n of the given properties
RECURSIVE Objects(_, _, _)
Objects(route, names, n) ==
  IF names = {} \/ n = 0 THEN {EmptyObj}
  ELSE LET name == CHOOSE x \in names : TRUE
           rest == names \ {name}
       IN  Objects(route, rest, n)
           \cup { (name :> v) @@ o :
                    v \in FieldValues(route, name), o \in Objects(route, rest, n - 1) }

HeaderSets(route) ==
  IF route = "plivo/call"
  THEN { [host |-> <<"demo.example">>],
         [host |-> <<"demo.example">>, x_forwarded_proto |-> <<"http">>] }
  ELSE { [host |-> <<"demo.example">>] }

\* the properties a handler needs in req.body to do its work
RequiredFields(route) ==
  CASE route = "offer" -> {"sdp", "ephemeral_token"}
    [] route \in {"offer-direct", "offer-legacy"} -> {"sdp"}
    [] route = "plivo/call" -> {"to_number", "from_number"}
    [] OTHER -> {}

\* the (query, body) pairs in which the caller supplies at most MaxProvided
\* properties besides the required ones (which it may supply or leave out)
Supplied(route) ==
  { p \in Objects(route, QueryFields(route), MaxProvided)
           \X Objects(route, BodyFields(route),
                      MaxProvided + Cardinality(RequiredFields(route))) :
      Cardinality(DOMAIN p[1]) + Cardinality(DOMAIN p[2] \ RequiredFields(route))
        <= MaxProvided }

Requests(route) ==
  { [route |-> route, method |-> m, query |-> p[1], body |-> p[2], headers |-> h] :
      m \in Methods(route), p \in Supplied(route), h \in HeaderSets(route) }

NoRequest == [route |-> "none"]

(***************************************************************************)
(* The upstream services, as seen through fetch and the Plivo SDK          *)
(***************************************************************************)
UpstreamStatuses == {200, 502, 503}

\* response.ok
Ok(status) == status >= 200 /\ status <= 299

\* bodies: two JSON objects, one plain text (an SDP answer or an error
\* text), and one whose stream breaks while it is read
UpstreamBodies ==
  { [readable |-> TRUE, isJson |-> TRUE, text |-> <<"{full}">>,
     obj |-> [value |-> <<"eph_1">>, expires_at |-> <<"1700000000">>,
              config_token |-> <<"cfg_1">>, session_id |-> <<"sess_9">>]],
    [readable |-> TRUE, isJson |-> TRUE, text |-> <<"{partial}">>,
     obj |-> [expires_at |-> <<"1700000000">>]],
    [readable |-> TRUE, isJson |-> FALSE, text |-> <<"overloaded">>, obj |-> EmptyObj],
    [readable |-> FALSE, isJson |-> FALSE, text |-> <<>>, obj |-> EmptyObj] }

Thrown(message) == [kind |-> "throw", message |-> message]

FetchOutcomes(call) ==
  IF ~IsAbsoluteUrl(call.url)
  THEN {Thrown(<<"Failed to parse URL">>)}
  ELSE {Thrown(<<"fetch failed">>)}
       \cup { [kind |-> "response", status |-> s, body |-> b] :
                s \in UpstreamStatuses, b \in UpstreamBodies }

PlivoOutcomes ==
  { Thrown(<<"plivo rejected the call">>), Thrown(<<>>),
    [kind |-> "created", requestUuid |-> <<"uuid_1">>, message |-> <<"call fired">>] }

\* await response.text() / await response.json() throw on these
TextThrows(o) == ~o.body.readable
JsonThrows(o) == ~o.body.readable \/ ~o.body.isJson

(***************************************************************************)
(* Responses and handler steps                                             *)
(***************************************************************************)
JsonBody(obj) == [kind |-> "json", obj |-> obj]
TextBody(text) == [kind |-> "text", text |-> text]
XmlBody(elements) == [kind |-> "xml", elements |-> elements]

NoHeaders == EmptyObj

CorsHeaders(methods) ==
  [Access_Control_Allow_Origin |-> <<"*">>,
   Access_Control_Allow_Methods |-> methods,
   Access_Control_Allow_Headers |-> <<"Content-Type">>]

\* a handler segment ends by sending a response or by suspending on a call
Respond(status, body, headers) ==
  [kind |-> "respond",
   response |-> [status |-> status, body |-> body, headers |-> headers]]

Fetch(url, method, headers, body) ==
  [kind |-> "call", pc |-> "fetch", locals |-> EmptyObj,
   call |-> [kind |-> "fetch", url |-> url, method |-> method,
             headers |-> headers, body |-> body]]

\* variant: the error text is sent under `message`
ErrorJsonAsMessage(message) == JsonBody([message |-> message])

ErrorJson(message) == JsonBody([error |-> message])
ErrorDetailsJson(message, details) == JsonBody([error |-> message, details |-> details])

MethodNotAllowed == Respond(405, ErrorJson(<<"Method not allowed">>), NoHeaders)

\* error.message of what response.text() / response.json() throws
BodyError(o) == IF o.body.readable THEN <<"Unexpected token in JSON">> ELSE <<"terminated">>

\* the properties of obj among names ({a: obj.a, b: obj.b} after JSON.stringify,
\* which drops undefined properties)
Pick(obj, names) == [n \in (DOMAIN obj \cap names) |-> obj[n]]

\* process.env.BACKEND_URL.replace(/\/$/, ''), and "undefined" after `?.`
BackendBase(e) ==
  IF "BACKEND_URL" \in DOMAIN e THEN StripTrailingSlash(e["BACKEND_URL"])
  ELSE <<"undefined">>

(***************************************************************************)
(* Session configuration                                                   *)
(***************************************************************************)
DefaultInstructions == <<"You are a helpful and friendly AI assistant.">>
LegacyInstructions == <<"You are Luna, a helpful AI assistant.">>
DefaultTemperature == 80
DefaultTopP == 95
DefaultTopK == 50
DefaultThreshold == 50
DefaultPrefixPaddingMs == 300
DefaultSilenceDurationMs == 500

\* body.name || fallback, for numbers and for strings
OrNum(body, name, fallback) ==
  IF name \in DOMAIN body /\ TruthyNum(body[name]) THEN body[name] ELSE fallback

OrStr(body, name, fallback) ==
  IF name \in DOMAIN body /\ TruthyStr(body[name]) THEN body[name] ELSE fallback

TurnDetection(body) ==
  [type |-> <<"server_vad">>,
   threshold |-> OrNum(body, "vad_threshold", DefaultThreshold),
   prefix_padding_ms |-> OrNum(body, "vad_prefix_padding_ms", DefaultPrefixPaddingMs),
   silence_duration_ms |-> OrNum(body, "vad_silence_duration_ms", DefaultSilenceDurationMs)]

\* the `session` object of ephemeral-key
EphemeralKeySession(body) ==
  [model |-> <<"lunav1">>,
   voice |-> <<"base">>,
   instructions |-> OrStr(body, "custom_prompt", DefaultInstructions),
   temperature |-> OrNum(body, "temperature", DefaultTemperature),
   top_p |-> OrNum(body, "top_p", DefaultTopP),
   top_k |-> OrNum(body, "top_k", DefaultTopK),
   turn_detection |-> TurnDetection(body),
   input_audio_transcription |-> [model |-> <<"lunav1">>]]

\* sessionConfig of the direct offer relays
DirectSession(body, instructions) ==
  [type |-> <<"realtime">>,
   model |-> <<"lunav1">>,
   audio |-> [output |-> [voice |-> <<"base">>]],
   turn_detection |-> TurnDetection(body),
   input_audio_transcription |-> [model |-> <<"lunav1">>],
   instructions |-> OrStr(body, "custom_prompt", instructions),
   temperature |-> OrNum(body, "temperature", DefaultTemperature),
   top_p |-> OrNum(body, "top_p", DefaultTopP),
   top_k |-> OrNum(body, "top_k", DefaultTopK)]

OfferDirectSession(body) == DirectSession(body, DefaultInstructions)
OfferLegacySession(body) == DirectSession(body, LegacyInstructions)

(***************************************************************************)
(* POST /api/ephemeral-key                                                 *)
(***************************************************************************)
EphemeralKeyCatch(message) ==
  Respond(502, ErrorDetailsJson(<<"Failed to generate ephemeral token">>, message), NoHeaders)

\* variant: the AUTH_KEY check is missing
EphemeralKeyStartKeyUnchecked(e, r) ==
  IF r.method # "POST" THEN MethodNotAllowed
  ELSE IF "BACKEND_URL" \notin DOMAIN e
  THEN Respond(500, ErrorJson(<<"Missing BACKEND_URL configuration">>), NoHeaders)
  ELSE Fetch(BackendBase(e) \o <<"/v1/realtime/client_secrets">>, "POST",
             [Content_Type |-> <<"application/json">>,
              X_Luna_Key |-> Bearer(Tpl(e, "AUTH_KEY"))],
             [enc |-> "json", obj |-> [session |-> EphemeralKeySession(r.body)]])

\* from the entry of the handler to its first response or to the fetch
EphemeralKeyStart(e, r) ==
  IF r.method # "POST" THEN MethodNotAllowed
  ELSE IF "AUTH_KEY" \notin DOMAIN e
  THEN Respond(500, ErrorJson(<<"Missing AUTH_KEY configuration">>), NoHeaders)
  ELSE IF "BACKEND_URL" \notin DOMAIN e
  THEN Respond(500, ErrorJson(<<"Missing BACKEND_URL configuration">>), NoHeaders)
  ELSE Fetch(BackendBase(e) \o <<"/v1/realtime/client_secrets">>, "POST",
             [Content_Type |-> <<"application/json">>,
              X_Luna_Key |-> Bearer(Tpl(e, "AUTH_KEY"))],
             [enc |-> "json", obj |-> [session |-> EphemeralKeySession(r.body)]])

\* variant: the whole upstream object is passed on
EphemeralKeyResumeWholeBody(e, r, o) ==
  IF o.kind = "throw" THEN EphemeralKeyCatch(o.message)
  ELSE IF ~Ok(o.status)
  THEN IF TextThrows(o) THEN EphemeralKeyCatch(BodyError(o))
       ELSE Respond(o.status,
                    ErrorDetailsJson(<<"Failed to create ephemeral token">>, o.body.text),
                    NoHeaders)
  ELSE IF JsonThrows(o) THEN EphemeralKeyCatch(BodyError(o))
  ELSE Respond(200, JsonBody(o.body.obj), NoHeaders)

\* from the outcome o of the fetch to the response
EphemeralKeyResume(e, r, o) ==
  IF o.kind = "throw" THEN EphemeralKeyCatch(o.message)
  ELSE IF ~Ok(o.status)
  THEN IF TextThrows(o) THEN EphemeralKeyCatch(BodyError(o))
       ELSE Respond(o.status,
                    ErrorDetailsJson(<<"Failed to create ephemeral token">>, o.body.text),
                    NoHeaders)
  ELSE IF JsonThrows(o) THEN EphemeralKeyCatch(BodyError(o))
  ELSE Respond(200, JsonBody(Pick(o.body.obj, {"value", "expires_at"})), NoHeaders)

(***************************************************************************)
(* The relays' common catch block                                          *)
(***************************************************************************)
\* variant: the catch block answers with a plain server error
RelayCatchAs500(message) ==
  Respond(500, ErrorDetailsJson(<<"Failed to connect to backend">>, message), NoHeaders)

RelayCatch(message) ==
  Respond(502, ErrorDetailsJson(<<"Failed to connect to backend">>, message), NoHeaders)

(***************************************************************************)
(* POST /api/offer (ephemeral token)                                       *)
(***************************************************************************)
\* variant: the ephemeral_token check is missing
OfferStartTokenUnchecked(e, r) ==
  IF r.method # "POST" THEN MethodNotAllowed
  ELSE IF "BACKEND_URL" \notin DOMAIN e
  THEN Respond(500, ErrorJson(<<"Missing BACKEND_URL configuration">>), NoHeaders)
  ELSE IF ~("sdp" \in DOMAIN r.body /\ TruthyStr(r.body["sdp"]))
  THEN Respond(400, ErrorJson(<<"Missing SDP in request">>), NoHeaders)
  ELSE Fetch(BackendBase(e) \o <<"/v1/realtime/calls">>, "POST",
             [Content_Type |-> <<"application/sdp">>,
              X_Luna_Key |-> Bearer(Tpl(r.body, "ephemeral_token"))],
             [enc |-> "raw", text |-> r.body["sdp"]])

\* variant: the long-lived key is sent when the process has one
OfferStartWithAuthKey(e, r) ==
  IF r.method # "POST" THEN MethodNotAllowed
  ELSE IF "BACKEND_URL" \notin DOMAIN e
  THEN Respond(500, ErrorJson(<<"Missing BACKEND_URL configuration">>), NoHeaders)
  ELSE IF ~("sdp" \in DOMAIN r.body /\ TruthyStr(r.body["sdp"]))
  THEN Respond(400, ErrorJson(<<"Missing SDP in request">>), NoHeaders)
  ELSE IF ~("ephemeral_token" \in DOMAIN r.body /\ TruthyStr(r.body["ephemeral_token"]))
  THEN Respond(400,
               ErrorJson(<<"Missing ephemeral_token. Call /api/ephemeral-key first.">>),
               NoHeaders)
  ELSE Fetch(BackendBase(e) \o <<"/v1/realtime/calls">>, "POST",
             [Content_Type |-> <<"application/sdp">>,
              X_Luna_Key |-> Bearer(IF "AUTH_KEY" \in DOMAIN e THEN e["AUTH_KEY"]
                                    ELSE r.body["ephemeral_token"])],
             [enc |-> "raw", text |-> r.body["sdp"]])

OfferStart(e, r) ==
  IF r.method # "POST" THEN MethodNotAllowed
  ELSE IF "BACKEND_URL" \notin DOMAIN e
  THEN Respond(500, ErrorJson(<<"Missing BACKEND_URL configuration">>), NoHeaders)
  ELSE IF ~("sdp" \in DOMAIN r.body /\ TruthyStr(r.body["sdp"]))
  THEN Respond(400, ErrorJson(<<"Missing SDP in request">>), NoHeaders)
  ELSE IF ~("ephemeral_token" \in DOMAIN r.body /\ TruthyStr(r.body["ephemeral_token"]))
  THEN Respond(400,
               ErrorJson(<<"Missing ephemeral_token. Call /api/ephemeral-key first.">>),
               NoHeaders)
  ELSE Fetch(BackendBase(e) \o <<"/v1/realtime/calls">>, "POST",
             [Content_Type |-> <<"application/sdp">>,
              X_Luna_Key |-> Bearer(r.body["ephemeral_token"])],
             [enc |-> "raw", text |-> r.body["sdp"]])

\* variant: the upstream error body is wrapped in a JSON object
SdpRelayResumeWrapped(o) ==
  IF o.kind = "throw" THEN RelayCatch(o.message)
  ELSE IF TextThrows(o) THEN RelayCatch(BodyError(o))
  ELSE IF ~Ok(o.status)
  THEN Respond(o.status, ErrorDetailsJson(<<"Upstream error">>, o.body.text), NoHeaders)
  ELSE Respond(200, TextBody(o.body.text), CorsHeaders(<<"POST, OPTIONS">>))

\* lines shared by the three offer relays after their fetch
SdpRelayResume(o) ==
  IF o.kind = "throw" THEN RelayCatch(o.message)
  ELSE IF TextThrows(o) THEN RelayCatch(BodyError(o))
  ELSE IF ~Ok(o.status) THEN Respond(o.status, TextBody(o.body.text), NoHeaders)
  ELSE Respond(200, TextBody(o.body.text), CorsHeaders(<<"POST, OPTIONS">>))

\* variant: a thrown fetch is retried once
OfferResumeRetry(e, r, o) ==
  IF o.kind = "throw" /\ Len(outbound) < 2 THEN OfferStart(e, r) ELSE SdpRelayResume(o)

OfferResume(e, r, o) == SdpRelayResume(o)

(***************************************************************************)
(* POST /api/offer-direct (long-lived key)                                 *)
(***************************************************************************)
\* the two parts of the multipart form; append() of undefined sends "undefined"
FormData(body, session) ==
  [enc |-> "multipart", sdp |-> Tpl(body, "sdp"), session |-> session]

OfferDirectStart(e, r) ==
  IF r.method # "POST" THEN MethodNotAllowed
  ELSE IF "AUTH_KEY" \notin DOMAIN e
  THEN Respond(500, ErrorJson(<<"Missing AUTH_KEY configuration">>), NoHeaders)
  ELSE IF "BACKEND_URL" \notin DOMAIN e
  THEN Respond(500, ErrorJson(<<"Missing BACKEND_URL configuration">>), NoHeaders)
  ELSE IF ~("sdp" \in DOMAIN r.body /\ TruthyStr(r.body["sdp"]))
  THEN Respond(400, ErrorJson(<<"Missing SDP in request">>), NoHeaders)
  ELSE Fetch(BackendBase(e) \o <<"/v1/realtime/calls">>, "POST",
             [X_Luna_Key |-> Bearer(Tpl(e, "AUTH_KEY"))],
             FormData(r.body, OfferDirectSession(r.body)))

\* variant: an upstream error is retried once
OfferDirectResumeRetry(e, r, o) ==
  IF o.kind = "response" /\ ~Ok(o.status) /\ Len(outbound) < 2
  THEN OfferDirectStart(e, r) ELSE SdpRelayResume(o)

OfferDirectResume(e, r, o) == SdpRelayResume(o)

(***************************************************************************)
(* POST /api/offer (legacy variant with the long-lived key)                *)
(***************************************************************************)
\* variant: the legacy relay checks sdp as the other relays do
OfferLegacyStartSdpChecked(e, r) ==
  IF r.method # "POST" THEN MethodNotAllowed
  ELSE IF ~("sdp" \in DOMAIN r.body /\ TruthyStr(r.body["sdp"]))
  THEN Respond(400, ErrorJson(<<"Missing SDP in request">>), NoHeaders)
  ELSE Fetch(BackendBase(e) \o <<"/v1/realtime/calls">>, "POST",
             [X_Luna_Key |-> Bearer(Tpl(e, "AUTH_KEY"))],
             FormData(r.body, OfferLegacySession(r.body)))

OfferLegacyStart(e, r) ==
  IF r.method # "POST" THEN MethodNotAllowed
  ELSE Fetch(BackendBase(e) \o <<"/v1/realtime/calls">>, "POST",
             [X_Luna_Key |-> Bearer(Tpl(e, "AUTH_KEY"))],
             FormData(r.body, OfferLegacySession(r.body)))

OfferLegacyResume(e, r, o) == SdpRelayResume(o)

(***************************************************************************)
(* GET /api/ice-servers                                                    *)
(***************************************************************************)
IceServersStart(e, r) ==
  IF r.method # "GET" THEN MethodNotAllowed
  ELSE Fetch(BackendBase(e) \o <<"/api/ice-servers">>, "GET",
             [Content_Type |-> <<"application/json">>], [enc |-> "none"])

\* variant: the success response carries no cross-origin header
IceServersResumeNoCors(e, r, o) ==
  IF o.kind = "throw" THEN RelayCatch(o.message)
  ELSE IF ~Ok(o.status)
  THEN IF TextThrows(o) THEN RelayCatch(BodyError(o))
       ELSE Respond(o.status, ErrorJson(o.body.text), NoHeaders)
  ELSE IF JsonThrows(o) THEN RelayCatch(BodyError(o))
  ELSE Respond(200, JsonBody(o.body.obj),
               [Cache_Control |-> <<"no-cache, no-store, must-revalidate">>])

IceServersResume(e, r, o) ==
  IF o.kind = "throw" THEN RelayCatch(o.message)
  ELSE IF ~Ok(o.status)
  THEN IF TextThrows(o) THEN RelayCatch(BodyError(o))
       ELSE Respond(o.status, ErrorJson(o.body.text), NoHeaders)
  ELSE IF JsonThrows(o) THEN RelayCatch(BodyError(o))
  ELSE Respond(200, JsonBody(o.body.obj),
               CorsHeaders(<<"GET, OPTIONS">>)
                 @@ [Cache_Control |-> <<"no-cache, no-store, must-revalidate">>])

(***************************************************************************)
(* POST /api/plivo/configure                                               *)
(***************************************************************************)
\* variant: every property is copied only when it is truthy
ConfigBodyTruthyOnly(body) ==
  [n \in { m \in DOMAIN body \cap ConfigureFields :
             IF m = "instructions" THEN TruthyStr(body[m]) ELSE TruthyNum(body[m]) }
     |-> body[n]]

\* configBody: instructions when truthy, the other properties when defined
ConfigBody(body) ==
  [n \in { m \in DOMAIN body \cap ConfigureFields :
             m = "instructions" => TruthyStr(body[m]) } |-> body[n]]

PlivoConfigureStart(e, r) ==
  IF r.method # "POST" THEN MethodNotAllowed
  ELSE IF "BACKEND_URL" \notin DOMAIN e
  THEN Respond(500, ErrorJson(<<"Missing BACKEND_URL configuration">>), NoHeaders)
  ELSE IF "AUTH_KEY" \notin DOMAIN e
  THEN Respond(500, ErrorJson(<<"Missing AUTH_KEY configuration">>), NoHeaders)
  ELSE Fetch(BackendBase(e) \o <<"/plivo/configure">>, "POST",
             [Content_Type |-> <<"application/json">>,
              X_Luna_Key |-> Bearer(Tpl(e, "AUTH_KEY"))],
             [enc |-> "json", obj |-> ConfigBody(r.body)])

\* variant: an upstream error is answered with the gateway-error status
PlivoConfigureResumeAs502(e, r, o) ==
  IF o.kind = "throw" THEN RelayCatch(o.message)
  ELSE IF ~Ok(o.status)
  THEN IF TextThrows(o) THEN RelayCatch(BodyError(o))
       ELSE Respond(502,
                    ErrorDetailsJson(<<"Failed to generate config token">>, o.body.text),
                    NoHeaders)
  ELSE IF JsonThrows(o) THEN RelayCatch(BodyError(o))
  ELSE Respond(200, JsonBody(o.body.obj), NoHeaders)

PlivoConfigureResume(e, r, o) ==
  IF o.kind = "throw" THEN RelayCatch(o.message)
  ELSE IF ~Ok(o.status)
  THEN IF TextThrows(o) THEN RelayCatch(BodyError(o))
       ELSE Respond(o.status,
                    ErrorDetailsJson(<<"Failed to generate config token">>, o.body.text),
                    NoHeaders)
  ELSE IF JsonThrows(o) THEN RelayCatch(BodyError(o))
  ELSE Respond(200, JsonBody(o.body.obj), NoHeaders)

(***************************************************************************)
(* URLSearchParams                                                         *)
(***************************************************************************)
\* params.set(name, value) when the value is truthy, as a list of pairs
SetIfTruthy(name, obj) ==
  IF name \in DOMAIN obj /\ TruthyStr(obj[name]) THEN << <<name, obj[name]>> >> ELSE <<>>

\* params.toString(): name=value joined by &
RECURSIVE QueryString(_)
QueryString(pairs) ==
  IF pairs = <<>> THEN <<>>
  ELSE <<pairs[1][1], "=">> \o pairs[1][2]
       \o (IF Len(pairs) > 1 THEN <<"&">> ELSE <<>>) \o QueryString(Tail(pairs))

(***************************************************************************)
(* GET|POST /api/plivo/answer                                              *)
(***************************************************************************)
\* variant: the form body of a POST is not read
AnswerParamsQueryOnly(r) == r.query

\* req.method === 'GET' ? req.query : { ...req.query, ...req.body }
AnswerParams(r) == IF r.method = "GET" THEN r.query ELSE r.body @@ r.query

StreamParams(e, params) ==
  << <<"api_key", Tpl(e, "AUTH_KEY")>> >>
  \o SetIfTruthy("config_token", params)
  \o SetIfTruthy("temperature", params)
  \o SetIfTruthy("silence_timeout", params)
  \o SetIfTruthy("vad_threshold", params)

StreamUrl(e, params) ==
  <<(IF StartsWithHttps(BackendBase(e)) THEN "wss" ELSE "ws"), "://">>
  \o StripScheme(BackendBase(e)) \o <<"/plivo/stream", "?">>
  \o QueryString(StreamParams(e, params))

\* new plivo.Response(), addStream(streamUrl, {...}), toXML()
AnswerXml(streamUrl) ==
  XmlBody(<< [tag |-> "Stream", text |-> streamUrl,
              attrs |-> [bidirectional |-> <<"true">>,
                         contentType |-> <<"audio/x-l16;rate=8000">>,
                         streamTimeout |-> <<"86400">>,
                         keepCallAlive |-> <<"true">>]] >>)

\* variant: the configuration is tested before the method
PlivoAnswerStartConfigFirst(e, r) ==
  IF "BACKEND_URL" \notin DOMAIN e \/ "AUTH_KEY" \notin DOMAIN e
  THEN Respond(500, TextBody(<<"<!-- Configuration Error -->">>), NoHeaders)
  ELSE IF r.method # "GET" /\ r.method # "POST" THEN MethodNotAllowed
  ELSE Respond(200, AnswerXml(StreamUrl(e, AnswerParams(r))),
               [Content_Type |-> <<"application/xml">>])

PlivoAnswerStart(e, r) ==
  IF r.method # "GET" /\ r.method # "POST" THEN MethodNotAllowed
  ELSE IF "BACKEND_URL" \notin DOMAIN e \/ "AUTH_KEY" \notin DOMAIN e
  THEN Respond(500, TextBody(<<"<!-- Configuration Error -->">>), NoHeaders)
  ELSE Respond(200, AnswerXml(StreamUrl(e, AnswerParams(r))),
               [Content_Type |-> <<"application/xml">>])

(***************************************************************************)
(* POST /api/plivo/call                                                    *)
(***************************************************************************)
DefaultSilenceTimeout == 30

PlivoCallCatch(message) ==
  Respond(500,
          ErrorJson(IF TruthyStr(message) THEN message ELSE <<"Failed to initiate call">>),
          NoHeaders)

\* steps 2 and 3: the answer URL and client.calls.create; loc holds configToken
\* when step 1 obtained one
CallParams(r, loc) ==
  IF "configToken" \in DOMAIN loc /\ TruthyStr(loc["configToken"])
  THEN << <<"config_token", loc["configToken"]>> >>
  ELSE (IF "temperature" \in DOMAIN r.body /\ TruthyNum(r.body["temperature"])
        THEN << <<"temperature", NumStr(r.body["temperature"])>> >> ELSE <<>>)
       \o (IF "silence_timeout" \in DOMAIN r.body /\ TruthyNum(r.body["silence_timeout"])
           THEN << <<"silence_timeout", NumStr(r.body["silence_timeout"])>> >> ELSE <<>>)

FinalAnswerUrl(r, loc) ==
  (IF "x_forwarded_proto" \in DOMAIN r.headers /\ TruthyStr(r.headers["x_forwarded_proto"])
   THEN r.headers["x_forwarded_proto"] ELSE <<"https">>)
  \o <<"://">> \o Tpl(r.headers, "host") \o <<"/api/plivo/answer", "?">>
  \o QueryString(CallParams(r, loc))

CallsCreate(r, loc) ==
  [kind |-> "call", pc |-> "plivo",
   locals |-> loc @@ [finalAnswerUrl |-> FinalAnswerUrl(r, loc)],
   call |-> [kind |-> "plivo", numbers |-> Pick(r.body, {"from_number", "to_number"}),
             answerUrl |-> FinalAnswerUrl(r, loc), answerMethod |-> "GET"]]

PlivoCallStart(e, r) ==
  IF r.method # "POST" THEN MethodNotAllowed
  ELSE IF "PLIVO_AUTH_ID" \notin DOMAIN e \/ "PLIVO_AUTH_TOKEN" \notin DOMAIN e
  THEN Respond(500, ErrorJson(<<"Plivo credentials missing">>), NoHeaders)
  ELSE IF "BACKEND_URL" \notin DOMAIN e \/ "AUTH_KEY" \notin DOMAIN e
  THEN Respond(500, ErrorJson(<<"Luna configuration missing">>), NoHeaders)
  ELSE IF "instructions" \in DOMAIN r.body /\ TruthyStr(r.body["instructions"])
  THEN Fetch(BackendBase(e) \o <<"/plivo/configure">>, "POST",
             [Content_Type |-> <<"application/json">>,
              X_Luna_Key |-> Bearer(Tpl(e, "AUTH_KEY"))],
             [enc |-> "json",
              obj |-> [instructions |-> r.body["instructions"],
                       temperature |-> OrNum(r.body, "temperature", DefaultTemperature),
                       silence_timeout |->
                         OrNum(r.body, "silence_timeout", DefaultSilenceTimeout)]])
  ELSE CallsCreate(r, EmptyObj)

\* from the outcome of the configure fetch to client.calls.create
PlivoCallConfigured(e, r, o) ==
  IF o.kind = "throw" THEN PlivoCallCatch(o.message)
  ELSE IF Ok(o.status)
  THEN IF JsonThrows(o) THEN PlivoCallCatch(BodyError(o))
       ELSE CallsCreate(r, IF "config_token" \in DOMAIN o.body.obj
                           THEN [configToken |-> o.body.obj["config_token"]]
                           ELSE EmptyObj)
  ELSE IF TextThrows(o) THEN PlivoCallCatch(BodyError(o))
  ELSE CallsCreate(r, EmptyObj)

\* from the outcome of client.calls.create to the response
PlivoCallCreated(e, r, loc, o) ==
  IF o.kind = "throw" THEN PlivoCallCatch(o.message)
  ELSE Respond(200,
               JsonBody([success |-> <<"true">>,
                         call_uuid |-> o.requestUuid,
                         message |-> o.message,
                         answer_url |-> loc["finalAnswerUrl"]]),
               NoHeaders)

(***************************************************************************)
(* The dashboard page when it has loaded                                   *)
(*                                                                         *)
(* ui holds the useState values the handlers below read or write, refs the *)
(* useRef values, browser the objects the page created (peer connections   *)
(* with their data channel, initWebRTC invocations, pending timers) and    *)
(* what it sent. The text of a message is kept as the number of characters *)
(* shown; an event-log entry is kept as its id, the time of its creation.  *)
(***************************************************************************)
DefaultVAD ==
  [threshold |-> DefaultThreshold,
   prefix_padding_ms |-> DefaultPrefixPaddingMs,
   silence_duration_ms |-> DefaultSilenceDurationMs]

InitialUi ==
  [isUserSpeaking |-> FALSE,
   isAISpeaking |-> FALSE,
   isConnected |-> FALSE,
   hint |-> "Click Connect to start",
   messages |-> <<>>,
   eventLogs |-> <<>>,
   systemPrompt |-> DefaultInstructions,
   activePrompt |-> <<>>,
   activeVAD |-> DefaultVAD]

\* a ref to an object is its index in browser.pcs, 0 for null
InitialRefs ==
  [pcRef |-> 0,
   dataChannelRef |-> 0,
   isInitializingRef |-> FALSE,
   typewriterTimeoutRef |-> FALSE,
   isTypingRef |-> FALSE,
   silenceDetectionIntervalRef |-> FALSE]

InitialBrowser ==
  [pcs |-> <<>>,
   inits |-> <<>>,
   fetches |-> <<>>,
   sent |-> <<>>,
   typewriter |-> <<>>,
   pollers |-> [user |-> 0, assistant |-> 0],
   hintTimers |-> 0,
   offerRoute |-> "offer",
   now |-> 0]

PageLoaded ==
  /\ ui = InitialUi
  /\ refs = InitialRefs
  /\ browser = InitialBrowser

(***************************************************************************)
(* The server: one request at a time, each handler suspended at its awaits *)
(***************************************************************************)
\* no handler is running
ServerIdle ==
  /\ pc = "idle"
  /\ req = NoRequest
  /\ outbound = <<>>
  /\ received = <<>>
  /\ responses = <<>>
  /\ locals = EmptyObj

Init ==
  /\ env \in Envs
  /\ ServerIdle
  /\ PageLoaded

\* variant: the handler returns on an error of the provider without responding
ApplySilentOnProviderError(step) ==
  IF step.kind = "respond"
  THEN /\ responses' = (IF pc = "plivo" /\ step.response.status = 500 THEN responses
                        ELSE Append(responses, step.response))
       /\ pc' = "done"
       /\ UNCHANGED <<outbound, locals>>
  ELSE /\ outbound' = Append(outbound, step.call)
       /\ pc' = step.pc
       /\ locals' = step.locals
       /\ UNCHANGED responses

\* the effect of a handler segment: a response is sent, or a call is issued
Apply(step) ==
  IF step.kind = "respond"
  THEN /\ responses' = Append(responses, step.response)
       /\ pc' = "done"
       /\ UNCHANGED <<outbound, locals>>
  ELSE /\ outbound' = Append(outbound, step.call)
       /\ pc' = step.pc
       /\ locals' = step.locals
       /\ UNCHANGED responses

\* the runtime invokes the handler with request r
Receive(r, step) ==
  /\ req' = r
  /\ Apply(step)
  /\ UNCHANGED <<env, received, pageVars>>

\* the pending call settles with outcome o and the handler runs on
Settle(o, step) ==
  /\ received' = Append(received, o)
  /\ Apply(step)
  /\ UNCHANGED <<env, req, pageVars>>

Awaiting(route, at) == pc = at /\ req.route = route

LastCall == outbound[Len(outbound)]

EphemeralKeyRequest ==
  /\ pc = "idle"
  /\ \E r \in Requests("ephemeral-key") : Receive(r, EphemeralKeyStart(env, r))

EphemeralKeyResponse ==
  /\ Awaiting("ephemeral-key", "fetch")
  /\ \E o \in FetchOutcomes(LastCall) : Settle(o, EphemeralKeyResume(env, req, o))

OfferRequest ==
  /\ pc = "idle"
  /\ \E r \in Requests("offer") : Receive(r, OfferStart(env, r))

OfferResponse ==
  /\ Awaiting("offer", "fetch")
  /\ \E o \in FetchOutcomes(LastCall) : Settle(o, OfferResume(env, req, o))

OfferDirectRequest ==
  /\ pc = "idle"
  /\ \E r \in Requests("offer-direct") : Receive(r, OfferDirectStart(env, r))

OfferDirectResponse ==
  /\ Awaiting("offer-direct", "fetch")
  /\ \E o \in FetchOutcomes(LastCall) : Settle(o, OfferDirectResume(env, req, o))

OfferLegacyRequest ==
  /\ pc = "idle"
  /\ \E r \in Requests("offer-legacy") : Receive(r, OfferLegacyStart(env, r))

OfferLegacyResponse ==
  /\ Awaiting("offer-legacy", "fetch")
  /\ \E o \in FetchOutcomes(LastCall) : Settle(o, OfferLegacyResume(env, req, o))

IceServersRequest ==
  /\ pc = "idle"
  /\ \E r \in Requests("ice-servers") : Receive(r, IceServersStart(env, r))

IceServersResponse ==
  /\ Awaiting("ice-servers", "fetch")
  /\ \E o \in FetchOutcomes(LastCall) : Settle(o, IceServersResume(env, req, o))

PlivoConfigureRequest ==
  /\ pc = "idle"
  /\ \E r \in Requests("plivo/configure") : Receive(r, PlivoConfigureStart(env, r))

PlivoConfigureResponse ==
  /\ Awaiting("plivo/configure", "fetch")
  /\ \E o \in FetchOutcomes(LastCall) : Settle(o, PlivoConfigureResume(env, req, o))

PlivoAnswerRequest ==
  /\ pc = "idle"
  /\ \E r \in Requests("plivo/answer") : Receive(r, PlivoAnswerStart(env, r))

PlivoCallRequest ==
  /\ pc = "idle"
  /\ \E r \in Requests("plivo/call") : Receive(r, PlivoCallStart(env, r))

PlivoCallConfigResponse ==
  /\ Awaiting("plivo/call", "fetch")
  /\ \E o \in FetchOutcomes(LastCall) : Settle(o, PlivoCallConfigured(env, req, o))

PlivoCallCreateResponse ==
  /\ Awaiting("plivo/call", "plivo")
  /\ \E o \in PlivoOutcomes : Settle(o, PlivoCallCreated(env, req, locals, o))

\* the handler has returned: everything it held was scoped to the request
Return ==
  /\ pc = "done"
  /\ pc' = "idle"
  /\ req' = NoRequest
  /\ outbound' = <<>>
  /\ received' = <<>>
  /\ responses' = <<>>
  /\ locals' = EmptyObj
  /\ UNCHANGED <<env, pageVars>>

Next ==
  \/ EphemeralKeyRequest
  \/ EphemeralKeyResponse
  \/ OfferRequest
  \/ OfferResponse
  \/ OfferDirectRequest
  \/ OfferDirectResponse
  \/ OfferLegacyRequest
  \/ OfferLegacyResponse
  \/ IceServersRequest
  \/ IceServersResponse
  \/ PlivoConfigureRequest
  \/ PlivoConfigureResponse
  \/ PlivoAnswerRequest
  \/ PlivoCallRequest
  \/ PlivoCallConfigResponse
  \/ PlivoCallCreateResponse
  \/ Return

Spec == Init /\ [][Next]_vars

(***************************************************************************)
(* Vocabulary of the properties                                            *)
(***************************************************************************)
Done == pc = "done" /\ Len(responses) = 1

\* the endpoints that relay one fetch to the Luna backend
RelayRoutes == {"ephemeral-key", "offer", "offer-direct", "offer-legacy",
                "ice-servers", "plivo/configure"}

SdpRoutes == {"offer", "offer-direct", "offer-legacy"}

\* the tokens a response body is made of
Atoms(body) ==
  CASE body.kind = "json" -> UNION {Range(body.obj[k]) : k \in DOMAIN body.obj}
    [] body.kind = "text" -> Range(body.text)
    [] body.kind = "xml" ->
         UNION {Range(body.elements[i].text) : i \in DOMAIN body.elements}

IsErrorJson(body) == body.kind = "json" /\ "error" \in DOMAIN body.obj

\* outcome o is an HTTP response; it is a failure; its body arrived whole
IsResponse(o) == o.kind = "response"
NonSuccess(o) == IsResponse(o) /\ ~Ok(o.status)
Failed(o) == o.kind = "throw" \/ NonSuccess(o)
Delivered(o) == IsResponse(o) /\ o.body.readable

\* the i-th outbound call was a fetch to the Luna backend and it threw
FetchThrew(i) ==
  i \in DOMAIN received /\ outbound[i].kind = "fetch" /\ received[i].kind = "throw"

(***************************************************************************)
(* C1: the long-lived credential AUTH_KEY never appears in the body of a   *)
(* response sent to a caller, for every handler and every path.            *)
(* Violated by plivo/answer, whose XML carries api_key=<AUTH_KEY>.         *)
(***************************************************************************)
C1_AuthKeyNeverInResponseBody ==
  \A i \in DOMAIN responses :
    "AUTH_KEY" \in DOMAIN env => ~(Range(env["AUTH_KEY"]) \subseteq Atoms(responses[i].body))

(***************************************************************************)
(* C2 as stated: an upstream non-success status s with body b is answered  *)
(* by every relay endpoint with status s and a body that is exactly b.     *)
(***************************************************************************)
C2_UpstreamErrorRelayedVerbatim ==
  (Done /\ req.route \in RelayRoutes /\ Len(received) = 1
     /\ NonSuccess(received[1]) /\ Delivered(received[1]))
  => /\ responses[1].status = received[1].status
     /\ responses[1].body = TextBody(received[1].body.text)

(***************************************************************************)
(* C2 amended: every relay endpoint answers an upstream non-success status *)
(* s with body b with status s; the body is exactly b for the offer relays,*)
(* and for ephemeral-key, plivo/configure and ice-servers it is a JSON     *)
(* object with an `error` field that carries b unchanged in `details`      *)
(* (ephemeral-key, plivo/configure) or in `error` (ice-servers).           *)
(***************************************************************************)
C2_UpstreamErrorStatusAndBodyCarried ==
  (Done /\ req.route \in RelayRoutes /\ Len(received) = 1
     /\ NonSuccess(received[1]) /\ Delivered(received[1]))
  => /\ responses[1].status = received[1].status
     /\ req.route \in SdpRoutes => responses[1].body = TextBody(received[1].body.text)
     /\ req.route \in {"ephemeral-key", "plivo/configure"} =>
          /\ IsErrorJson(responses[1].body)
          /\ DOMAIN responses[1].body.obj = {"error", "details"}
          /\ responses[1].body.obj["details"] = received[1].body.text
     /\ req.route = "ice-servers" =>
          responses[1].body = ErrorJson(received[1].body.text)

C2_Witness ==
  /\ Done /\ req.route = "ephemeral-key" /\ Len(received) = 1
  /\ IsResponse(received[1]) /\ received[1].status = 503
  /\ received[1].body.text = <<"overloaded">>
  /\ responses[1].status = 503

(***************************************************************************)
(* C3 as stated: when the fetch to the Luna backend throws, every endpoint *)
(* that relays to the backend, the config-token leg of plivo/call          *)
(* included, responds 502 with a JSON body containing `error`.             *)
(***************************************************************************)
C3_ThrownFetchGives502 ==
  (Done /\ \E i \in DOMAIN received : FetchThrew(i))
  => responses[1].status = 502 /\ IsErrorJson(responses[1].body)

(***************************************************************************)
(* C3 amended: when the fetch to the Luna backend throws, ephemeral-key,   *)
(* the offer relays, ice-servers and plivo/configure respond 502 with a    *)
(* JSON body containing `error`; the config-token leg of plivo/call        *)
(* responds 500 with a JSON body containing `error`.                       *)
(***************************************************************************)
C3_ThrownFetchGives502Or500 ==
  (Done /\ \E i \in DOMAIN received : FetchThrew(i))
  => /\ IsErrorJson(responses[1].body)
     /\ req.route \in RelayRoutes => responses[1].status = 502
     /\ req.route = "plivo/call" => responses[1].status = 500

C3_Witness ==
  /\ Done /\ req.route = "plivo/configure" /\ FetchThrew(1)
  /\ responses[1].status = 502

(***************************************************************************)
(* C4: every error is terminal and surfaced: once an outbound call failed  *)
(* (non-success status or throw) the handler makes no further outbound     *)
(* call and the caller receives a status >= 400.                           *)
(* Violated by plivo/call, which logs a failed /plivo/configure and goes   *)
(* on to create the call.                                                  *)
(***************************************************************************)
C4_ErrorsAreTerminal ==
  \A i \in DOMAIN received :
    Failed(received[i])
    => /\ Len(outbound) = i
       /\ Done => responses[1].status >= 400

(***************************************************************************)
(* C5: a POST to ephemeral-key or to plivo/configure with AUTH_KEY absent  *)
(* from the process configuration is answered with a 500 configuration     *)
(* error, and no outbound call is made for it, whatever the body.          *)
(***************************************************************************)
C5_MissingAuthKeyFailsFast ==
  (req.route \in {"ephemeral-key", "plivo/configure"} /\ req.method = "POST"
     /\ "AUTH_KEY" \notin DOMAIN env)
  => /\ outbound = <<>>
     /\ Done
     /\ responses[1].status = 500
     /\ IsErrorJson(responses[1].body)

C5_Witness ==
  /\ Done /\ req.route = "ephemeral-key" /\ req.method = "POST"
  /\ "AUTH_KEY" \notin DOMAIN env /\ "BACKEND_URL" \in DOMAIN env
  /\ DOMAIN req.body # {}
  /\ responses[1].status = 500 /\ outbound = <<>>

(***************************************************************************)
(* C6: with BACKEND_URL configured, a POST to the ephemeral offer relay    *)
(* whose body lacks `sdp` or lacks `ephemeral_token` is answered 400 with  *)
(* a JSON `error`, and no outbound call is made at any point of it.        *)
(***************************************************************************)
C6_OfferValidatesBeforeFetch ==
  (req.route = "offer" /\ req.method = "POST" /\ "BACKEND_URL" \in DOMAIN env
     /\ ("sdp" \notin DOMAIN req.body \/ "ephemeral_token" \notin DOMAIN req.body))
  => /\ outbound = <<>>
     /\ Done
     /\ responses[1].status = 400
     /\ IsErrorJson(responses[1].body)

C6_Witness ==
  /\ Done /\ req.route = "offer" /\ req.method = "POST" /\ "BACKEND_URL" \in DOMAIN env
  /\ "sdp" \in DOMAIN req.body /\ TruthyStr(req.body["sdp"])
  /\ "ephemeral_token" \notin DOMAIN req.body
  /\ responses[1].status = 400 /\ outbound = <<>>

(***************************************************************************)
(* C7: in the session sent upstream by ephemeral-key and by offer-direct,  *)
(* each of the seven fields equals the caller's value whenever the caller  *)
(* provided one, and the documented default only when the caller did not.  *)
(* Violated: `value || default` replaces a provided 0 or "" by the default.*)
(***************************************************************************)
SentSession(call) ==
  IF call.body.enc = "json" THEN call.body.obj.session ELSE call.body.session

\* the seven fields of a session, by the name the caller uses for each
SessionValue(session, name) ==
  CASE name = "custom_prompt" -> session.instructions
    [] name = "temperature" -> session.temperature
    [] name = "top_p" -> session.top_p
    [] name = "top_k" -> session.top_k
    [] name = "vad_threshold" -> session.turn_detection.threshold
    [] name = "vad_prefix_padding_ms" -> session.turn_detection.prefix_padding_ms
    [] name = "vad_silence_duration_ms" -> session.turn_detection.silence_duration_ms

DocumentedDefault(name) ==
  CASE name = "custom_prompt" -> DefaultInstructions
    [] name = "temperature" -> 80
    [] name = "top_p" -> 95
    [] name = "top_k" -> 50
    [] name = "vad_threshold" -> 50
    [] name = "vad_prefix_padding_ms" -> 300
    [] name = "vad_silence_duration_ms" -> 500

C7_SessionKeepsProvidedValues ==
  (req.route \in {"ephemeral-key", "offer-direct"} /\ Len(outbound) = 1)
  => \A name \in SessionFields :
       SessionValue(SentSession(outbound[1]), name) =
         IF name \in DOMAIN req.body THEN req.body[name] ELSE DocumentedDefault(name)

(***************************************************************************)
(* C8 as stated: every handler makes at most one outbound call (fetches to *)
(* the Luna backend plus calls to the telephony provider) per request.     *)
(***************************************************************************)
C8_AtMostOneOutboundCall == Len(outbound) <= 1

(***************************************************************************)
(* C8 amended: every handler other than plivo/call makes at most one       *)
(* outbound call per request; plivo/call makes at most two, at most one    *)
(* fetch to the Luna backend followed by at most one call to the           *)
(* telephony provider.                                                     *)
(***************************************************************************)
C8_AtMostOneCallPerService ==
  /\ req.route # "plivo/call" => Len(outbound) <= 1
  /\ Cardinality({i \in DOMAIN outbound : outbound[i].kind = "fetch"}) <= 1
  /\ Cardinality({i \in DOMAIN outbound : outbound[i].kind = "plivo"}) <= 1
  /\ \A i \in DOMAIN outbound : outbound[i].kind = "fetch" => i = 1

C8_Witness ==
  /\ Done /\ req.route = "plivo/call" /\ Len(outbound) = 2
  /\ outbound[1].kind = "fetch" /\ outbound[2].kind = "plivo"

(***************************************************************************)
(* C9: no automatic retry: while handling one request no handler calls the *)
(* same upstream endpoint more than once, whatever the first outcome.      *)
(***************************************************************************)
Endpoint(call) ==
  IF call.kind = "fetch" THEN call.url ELSE <<"plivo", "calls.create">>

C9_NoRetry ==
  \A i, j \in DOMAIN outbound : i # j => Endpoint(outbound[i]) # Endpoint(outbound[j])

C9_Witness ==
  /\ Done /\ req.route = "offer" /\ Len(outbound) = 1
  /\ received[1].kind = "throw" /\ responses[1].status = 502

(***************************************************************************)
(* C10 as stated: whenever a relay endpoint responds 502, no HTTP response *)
(* was received from upstream for that request (a response whose body      *)
(* stream broke is not counted as received).                               *)
(***************************************************************************)
C10_502MeansNoUpstreamResponse ==
  (Done /\ req.route \in RelayRoutes /\ responses[1].status = 502)
  => \A i \in DOMAIN received : ~Delivered(received[i])

(***************************************************************************)
(* C10 amended: whenever a relay endpoint responds 502, either the fetch   *)
(* threw, or reading or parsing the body of the upstream response threw,   *)
(* or upstream itself answered with status 502; an upstream non-success    *)
(* response with any other status, once read, is never surfaced as 502.    *)
(***************************************************************************)
BodyThrew(route, o) ==
  \/ ~o.body.readable
  \/ Ok(o.status) /\ route \notin SdpRoutes /\ ~o.body.isJson

C10_502MeansThrowOrUpstream502 ==
  (Done /\ req.route \in RelayRoutes /\ responses[1].status = 502)
  => /\ Len(received) = 1
     /\ \/ received[1].kind = "throw"
        \/ BodyThrew(req.route, received[1])
        \/ received[1].status = 502

C10_Witness ==
  /\ Done /\ req.route = "ephemeral-key" /\ responses[1].status = 502
  /\ IsResponse(received[1]) /\ received[1].status = 502 /\ Delivered(received[1])

(***************************************************************************)
(* C11: on the ephemeral offer leg every accepted request (POST, backend   *)
(* configured, non-empty sdp and ephemeral_token) makes a single outbound  *)
(* request: POST <base>/v1/realtime/calls with X-Luna-Key equal to         *)
(* "Bearer " followed by the caller's ephemeral_token, Content-Type        *)
(* application/sdp and a body equal to the caller's sdp. It carries no     *)
(* session configuration, whatever session fields the caller's body has,   *)
(* and AUTH_KEY is not sent on this leg.                                   *)
(***************************************************************************)
OfferAccepted ==
  /\ req.route = "offer" /\ req.method = "POST" /\ "BACKEND_URL" \in DOMAIN env
  /\ "sdp" \in DOMAIN req.body /\ req.body["sdp"] # <<>>
  /\ "ephemeral_token" \in DOMAIN req.body /\ req.body["ephemeral_token"] # <<>>

\* the tokens of an outbound fetch: its URL, its header values and its raw body
CallAtoms(call) ==
  Range(call.url)
  \cup UNION {Range(call.headers[h]) : h \in DOMAIN call.headers}
  \cup (IF call.body.enc = "raw" THEN Range(call.body.text) ELSE {})

C11_OfferLegCarriesTokenAndSdpOnly ==
  /\ OfferAccepted =>
       /\ Len(outbound) = 1
       /\ outbound[1].kind = "fetch"
       /\ outbound[1].method = "POST"
       /\ outbound[1].url = <<"https://", "luna.example", "/v1/realtime/calls">>
       /\ outbound[1].headers =
            [Content_Type |-> <<"application/sdp">>,
             X_Luna_Key |-> <<"Bearer ">> \o req.body["ephemeral_token"]]
       /\ outbound[1].body = [enc |-> "raw", text |-> req.body["sdp"]]
       /\ "AUTH_KEY" \in DOMAIN env =>
            Range(env["AUTH_KEY"]) \cap CallAtoms(outbound[1]) = {}
  /\ (req.route = "offer" /\ outbound # <<>>) => OfferAccepted

C11_Witness ==
  /\ OfferAccepted /\ Len(outbound) = 1
  /\ "custom_prompt" \in DOMAIN req.body /\ req.body["custom_prompt"] # <<>>
  /\ "AUTH_KEY" \in DOMAIN env
  /\ "session" \notin DOMAIN outbound[1].body

(***************************************************************************)
(* C12: when upstream answers the token request with a success status and  *)
(* a JSON body, ephemeral-key responds 200 with a JSON object whose fields *)
(* are `value` and `expires_at` and nothing else, each equal to the field  *)
(* of the upstream body (and absent when upstream left it out); no other   *)
(* upstream field is passed on.                                            *)
(***************************************************************************)
UpstreamSuccessJson(o) ==
  IsResponse(o) /\ Ok(o.status) /\ o.body.readable /\ o.body.isJson

C12_EphemeralKeyReturnsValueAndExpiry ==
  (Done /\ req.route = "ephemeral-key" /\ Len(received) = 1
     /\ UpstreamSuccessJson(received[1]))
  => /\ responses[1].status = 200
     /\ responses[1].body.kind = "json"
     /\ DOMAIN responses[1].body.obj \subseteq {"value", "expires_at"}
     /\ \A f \in {"value", "expires_at"} :
          IF f \in DOMAIN received[1].body.obj
          THEN /\ f \in DOMAIN responses[1].body.obj
               /\ responses[1].body.obj[f] = received[1].body.obj[f]
          ELSE f \notin DOMAIN responses[1].body.obj

C12_Witness ==
  /\ Done /\ req.route = "ephemeral-key" /\ Len(received) = 1
  /\ UpstreamSuccessJson(received[1])
  /\ "session_id" \in DOMAIN received[1].body.obj
  /\ responses[1].status = 200
  /\ DOMAIN responses[1].body.obj = {"value", "expires_at"}

(***************************************************************************)
(* C13 as stated: on upstream success plivo/configure responds 200 with a  *)
(* JSON body equal to the upstream JSON body, for every request body; and  *)
(* the fields the caller supplied are the ones forwarded to                *)
(* /plivo/configure.                                                       *)
(***************************************************************************)
ConfigureRelaysSuccess ==
  (Done /\ req.route = "plivo/configure" /\ Len(received) = 1
     /\ UpstreamSuccessJson(received[1]))
  => /\ responses[1].status = 200
     /\ responses[1].body = [kind |-> "json", obj |-> received[1].body.obj]

ConfigureCallIsJsonPost ==
  (req.route = "plivo/configure" /\ outbound # <<>>)
  => /\ Len(outbound) = 1
     /\ outbound[1].method = "POST"
     /\ outbound[1].url = <<"https://", "luna.example", "/plivo/configure">>
     /\ outbound[1].body.enc = "json"

C13_ConfigureForwardsSuppliedFields ==
  /\ ConfigureRelaysSuccess
  /\ ConfigureCallIsJsonPost
  /\ (req.route = "plivo/configure" /\ outbound # <<>>)
     => outbound[1].body.obj = req.body

(***************************************************************************)
(* C13 amended: on upstream success plivo/configure responds 200 with a    *)
(* JSON body equal to the upstream JSON body, for every request body; the  *)
(* body forwarded to /plivo/configure holds `instructions` when the caller *)
(* supplied a non-empty one, and each of the other eight fields whenever   *)
(* the caller supplied it (a 0 included), with the caller's value.         *)
(***************************************************************************)
C13_ConfigureForwardsNonEmptyFields ==
  /\ ConfigureRelaysSuccess
  /\ ConfigureCallIsJsonPost
  /\ (req.route = "plivo/configure" /\ outbound # <<>>)
     => /\ DOMAIN outbound[1].body.obj =
             { f \in DOMAIN req.body : f = "instructions" => req.body[f] # <<>> }
        /\ \A f \in DOMAIN outbound[1].body.obj : outbound[1].body.obj[f] = req.body[f]

C13_Witness ==
  /\ Done /\ req.route = "plivo/configure" /\ Len(received) = 1
  /\ req.body = [instructions |-> <<"Be brief">>, silence_timeout |-> 45]
  /\ outbound[1].body.obj = [instructions |-> <<"Be brief">>, silence_timeout |-> 45]
  /\ UpstreamSuccessJson(received[1])
  /\ "config_token" \in DOMAIN received[1].body.obj
  /\ responses[1].status = 200
  /\ responses[1].body.obj = received[1].body.obj

(***************************************************************************)
(* C14 as stated: for every non-empty config_token t supplied to           *)
(* plivo/answer (GET query or POST body) with the configuration present,   *)
(* the response is 200 with XML content type and a document with exactly   *)
(* one Stream directive whose WebSocket URL's query string contains        *)
(* api_key=<AUTH_KEY> and config_token=t; each optional override           *)
(* (temperature, silence_timeout, vad_threshold) appears in the query      *)
(* string exactly when the caller supplied it.                             *)
(***************************************************************************)
AnswerOverrides == {"temperature", "silence_timeout", "vad_threshold"}

\* what the caller of plivo/answer supplied under name f: the query string
\* of a GET; the form body of a POST, else its query string
SuppliedTo(r, f) ==
  IF r.method = "POST" /\ f \in DOMAIN r.body THEN {r.body[f]}
  ELSE IF f \in DOMAIN r.query THEN {r.query[f]}
  ELSE {}

Contains(s, sub) ==
  \E i \in 1..(Len(s) - Len(sub) + 1) : SubSeq(s, i, i + Len(sub) - 1) = sub

\* the part of a URL after its "?"
QueryOf(url) ==
  LET q == CHOOSE i \in DOMAIN url : url[i] = "?" IN SubSeq(url, q + 1, Len(url))

AnswerWithToken ==
  /\ Done /\ req.route = "plivo/answer" /\ req.method \in {"GET", "POST"}
  /\ "BACKEND_URL" \in DOMAIN env /\ "AUTH_KEY" \in DOMAIN env
  /\ SuppliedTo(req, "config_token") \notin {{}, {<<>>}}

AnswerIsOneStream ==
  /\ responses[1].status = 200
  /\ responses[1].headers = [Content_Type |-> <<"application/xml">>]
  /\ responses[1].body.kind = "xml"
  /\ Len(responses[1].body.elements) = 1
  /\ responses[1].body.elements[1].tag = "Stream"
  /\ SubSeq(responses[1].body.elements[1].text, 1, 5) =
       <<"wss", "://", "luna.example", "/plivo/stream", "?">>
  /\ Contains(QueryOf(responses[1].body.elements[1].text),
              <<"api_key", "=">> \o env["AUTH_KEY"])
  /\ \A t \in SuppliedTo(req, "config_token") :
       Contains(QueryOf(responses[1].body.elements[1].text), <<"config_token", "=">> \o t)

LacksSdp(r) == "sdp" \notin DOMAIN r.body \/ r.body["sdp"] = <<>>

\* a POST without sdp that the configuration checks of the route let through
DirectPostWithoutSdp(route) ==
  /\ req.route = route /\ req.method = "POST" /\ LacksSdp(req)
  /\ route = "offer-direct" => {"AUTH_KEY", "BACKEND_URL"} \subseteq DOMAIN env

\* the request went upstream as a multipart form and the response comes
\* from what upstream did with it
RelayedWithoutSdp ==
  /\ Len(outbound) = 1
  /\ outbound[1].kind = "fetch" /\ outbound[1].method = "POST"
  /\ outbound[1].url[Len(outbound[1].url)] = "/v1/realtime/calls"
  /\ outbound[1].body.enc = "multipart"
  /\ outbound[1].body.sdp =
       (IF "sdp" \in DOMAIN req.body THEN req.body["sdp"] ELSE <<"undefined">>)
  /\ outbound[1].body.session.type = <<"realtime">>
  /\ Done =>
       /\ Len(received) = 1
       /\ IF Delivered(received[1])
          THEN /\ responses[1].status = received[1].status
               /\ responses[1].body = [kind |-> "text", text |-> received[1].body.text]
          ELSE responses[1].status = 502

C15_DirectRelaysSkipSdpValidation ==
  \A route \in {"offer-direct", "offer-legacy"} :
    DirectPostWithoutSdp(route) => RelayedWithoutSdp

(***************************************************************************)
(* C15 amended: only the legacy direct offer relay performs no             *)
(* SDP-presence validation: its POST without `sdp` goes upstream as the    *)
(* multipart call to /v1/realtime/calls (the sdp part reading "undefined"  *)
(* when the field is absent) and the response is derived from the upstream *)
(* outcome. offer-direct, with its configuration present, rejects a POST   *)
(* without `sdp` with 400 and a JSON `error`, and makes no outbound call.  *)
(***************************************************************************)
C15_OnlyLegacySkipsSdpValidation ==
  /\ DirectPostWithoutSdp("offer-legacy") => RelayedWithoutSdp
  /\ DirectPostWithoutSdp("offer-direct") =>
       /\ outbound = <<>>
       /\ Done
       /\ responses[1].status = 400
       /\ IsErrorJson(responses[1].body)

C15_Witness ==
  /\ Done /\ DirectPostWithoutSdp("offer-legacy") /\ "sdp" \notin DOMAIN req.body
  /\ "BACKEND_URL" \in DOMAIN env
  /\ outbound[1].body.sdp = <<"undefined">>
  /\ IsResponse(received[1]) /\ received[1].status = 200
  /\ responses[1].status = 200

(***************************************************************************)
(* C16: for every handler that calls the Luna backend (ephemeral-key, the  *)
(* offer relays, the legacy direct offer, ice-servers, plivo/configure,    *)
(* plivo/call) and for plivo/answer: when a configuration value the        *)
(* handler needs (BACKEND_URL, or AUTH_KEY where the long-lived key is     *)
(* used) is absent, a request with an allowed method is answered with a    *)
(* server-error status and a body that reports the configuration problem,  *)
(* and no outbound call is made.                                           *)
(* Violated by ice-servers and by the legacy direct offer, which test      *)
(* neither value and go on to fetch.                                       *)
(***************************************************************************)
\* the routes whose handler reads process.env.AUTH_KEY
UsesAuthKey == {"ephemeral-key", "offer-direct", "offer-legacy",
                "plivo/configure", "plivo/call", "plivo/answer"}

NeededConfig(route) ==
  {"BACKEND_URL"} \cup (IF route \in UsesAuthKey THEN {"AUTH_KEY"} ELSE {})

AllowedMethod(r) ==
  CASE r.route = "ice-servers" -> r.method = "GET"
    [] r.route = "plivo/answer" -> r.method \in {"GET", "POST"}
    [] OTHER -> r.method = "POST"

ReportsConfiguration(body) ==
  \/ IsErrorJson(body) /\ body.obj["error"] \in
       { <<"Missing AUTH_KEY configuration">>, <<"Missing BACKEND_URL configuration">>,
         <<"Luna configuration missing">>, <<"Plivo credentials missing">> }
  \/ body = [kind |-> "text", text |-> <<"<!-- Configuration Error -->">>]

C16_MissingConfigFailsFast ==
  (req.route \in Routes /\ AllowedMethod(req)
     /\ ~(NeededConfig(req.route) \subseteq DOMAIN env))
  => /\ outbound = <<>>
     /\ Done
     /\ responses[1].status >= 500
     /\ ReportsConfiguration(responses[1].body)

(***************************************************************************)
(* C17 as stated: every response with status >= 400, of every handler on   *)
(* every path, has a body that is either the upstream error body relayed   *)
(* unchanged or a JSON object with an `error` field and optionally a       *)
(* `details` field.                                                        *)
(***************************************************************************)
IsSmallErrorJson(body) ==
  /\ IsErrorJson(body)
  /\ DOMAIN body.obj \subseteq {"error", "details"}

IsRelayedUpstreamError(body) ==
  \E j \in DOMAIN received :
    /\ NonSuccess(received[j]) /\ Delivered(received[j])
    /\ body = [kind |-> "text", text |-> received[j].body.text]

C17_ErrorBodiesAreJsonOrUpstream ==
  \A i \in DOMAIN responses :
    responses[i].status >= 400
    => IsSmallErrorJson(responses[i].body) \/ IsRelayedUpstreamError(responses[i].body)

(***************************************************************************)
(* C17 amended: every response with status >= 400 has a body that is the   *)
(* upstream error body relayed unchanged, or a JSON object with `error`    *)
(* and optionally `details`, or, for the configuration error of            *)
(* plivo/answer (status 500), the text <!-- Configuration Error -->.       *)
(***************************************************************************)
IsAnswerConfigurationError(response) ==
  /\ req.route = "plivo/answer"
  /\ ~({"BACKEND_URL", "AUTH_KEY"} \subseteq DOMAIN env)
  /\ response.status = 500
  /\ response.body = [kind |-> "text", text |-> <<"<!-- Configuration Error -->">>]

C17_ErrorBodiesAreJsonUpstreamOrXmlComment ==
  \A i \in DOMAIN responses :
    responses[i].status >= 400
    => \/ IsSmallErrorJson(responses[i].body)
       \/ IsRelayedUpstreamError(responses[i].body)
       \/ IsAnswerConfigurationError(responses[i])

C17_Witness ==
  /\ Done /\ req.route = "offer" /\ Len(received) = 1
  /\ IsResponse(received[1]) /\ received[1].status = 503
  /\ responses[1].status = 503
  /\ IsRelayedUpstreamError(responses[1].body)
  /\ ~IsSmallErrorJson(responses[1].body)

(***************************************************************************)
(* C18 as stated: every 200 response of a relay endpoint (ephemeral-key,   *)
(* offer, offer-direct, ice-servers, plivo/configure) carries the header   *)
(* Access-Control-Allow-Origin: * and a body equal to the upstream success *)
(* body.                                                                   *)
(***************************************************************************)
CorsRelayRoutes == {"ephemeral-key", "offer", "offer-direct", "ice-servers",
                    "plivo/configure"}

RelaySucceeded ==
  Done /\ req.route \in CorsRelayRoutes /\ responses[1].status = 200

AllowsAnyOrigin(response) ==
  /\ "Access_Control_Allow_Origin" \in DOMAIN response.headers
  /\ response.headers["Access_Control_Allow_Origin"] = <<"*">>

\* the body of upstream response o as a body of ours: SDP text for the
\* offer relays, the parsed JSON object for the others
UpstreamBodyFor(route, o) ==
  IF route \in SdpRoutes THEN [kind |-> "text", text |-> o.body.text]
  ELSE [kind |-> "json", obj |-> o.body.obj]

C18_RelaySuccessHasCorsAndUpstreamBody ==
  RelaySucceeded
  => /\ Len(received) = 1 /\ IsResponse(received[1]) /\ Ok(received[1].status)
     /\ AllowsAnyOrigin(responses[1])
     /\ responses[1].body = UpstreamBodyFor(req.route, received[1])

(***************************************************************************)
(* C18 amended: every 200 response of offer, offer-direct and ice-servers  *)
(* carries Access-Control-Allow-Origin: * and a body equal to the upstream *)
(* success body; a 200 response of plivo/configure has a body equal to the *)
(* upstream body and one of ephemeral-key has the `value` and `expires_at` *)
(* of the upstream body, and neither carries a cross-origin header.        *)
(***************************************************************************)
C18_RelaySuccessCorsOnSdpAndIce ==
  RelaySucceeded
  => /\ Len(received) = 1 /\ IsResponse(received[1]) /\ Ok(received[1].status)
     /\ req.route \in {"offer", "offer-direct", "ice-servers"} =>
          /\ AllowsAnyOrigin(responses[1])
          /\ responses[1].body = UpstreamBodyFor(req.route, received[1])
     /\ req.route = "plivo/configure" =>
          /\ "Access_Control_Allow_Origin" \notin DOMAIN responses[1].headers
          /\ responses[1].body = UpstreamBodyFor(req.route, received[1])
     /\ req.route = "ephemeral-key" =>
          /\ "Access_Control_Allow_Origin" \notin DOMAIN responses[1].headers
          /\ responses[1].body.kind = "json"
          /\ \A f \in DOMAIN responses[1].body.obj :
               /\ f \in {"value", "expires_at"}
               /\ f \in DOMAIN received[1].body.obj
               /\ responses[1].body.obj[f] = received[1].body.obj[f]

C18_Witness ==
  /\ RelaySucceeded /\ req.route = "ice-servers"
  /\ received[1].body.isJson /\ "session_id" \in DOMAIN received[1].body.obj
  /\ AllowsAnyOrigin(responses[1])
  /\ responses[1].body.obj = received[1].body.obj

(***************************************************************************)
(* C19: for the same caller parameters, the object ephemeral-key sends     *)
(* under `session` is the same canonical SessionConfig as the `session`    *)
(* form part of offer-direct: the fields type, model, audio.output.voice,  *)
(* turn_detection.{type, threshold, prefix_padding_ms,                     *)
(* silence_duration_ms}, input_audio_transcription.model, instructions,    *)
(* temperature, top_p and top_k, with identical values.                    *)
(* Violated: the session of ephemeral-key has no `type`, and has `voice`   *)
(* at the top level instead of audio.output.voice.                         *)
(***************************************************************************)
CanonicalFields == {"type", "model", "audio", "turn_detection",
                    "input_audio_transcription", "instructions",
                    "temperature", "top_p", "top_k"}

C19_SameCanonicalSession ==
  (req.route \in {"ephemeral-key", "offer-direct"} /\ Len(outbound) = 1)
  => /\ DOMAIN SentSession(outbound[1]) = CanonicalFields
     /\ SentSession(outbound[1]) = OfferDirectSession(req.body)

(***************************************************************************)
(* Concurrent requests                                                     *)
(*                                                                         *)
(* The runtime invokes a handler per inbound request; an invocation runs   *)
(* until its next await and other invocations run while it is suspended.   *)
(* In SpecConcurrent the request-scoped variables are functions of the     *)
(* slot that holds the invocation; env is the one process configuration.   *)
(* No handler file declares a module-level variable other than its         *)
(* imports, so an invocation reads env, its own req and what its own calls *)
(* returned.                                                               *)
(***************************************************************************)
\* largest number of requests in flight at once
MaxInFlight == 2

Slots == 1..MaxInFlight

\* a deployed process: every configuration value is set
ConcurrentEnvs ==
  { e \in Envs :
      DOMAIN e = {"AUTH_KEY", "BACKEND_URL", "PLIVO_AUTH_ID", "PLIVO_AUTH_TOKEN"} }

Post(route, body) ==
  [route |-> route, method |-> "POST", query |-> EmptyObj, body |-> body,
   headers |-> [host |-> <<"demo.example">>]]

\* the requests that race: offers that present one of two ephemeral tokens
\* (or none), token requests, and a call request that needs two calls
ConcurrentRequests ==
  { Post("offer", [sdp |-> <<"v=0 offer">>, ephemeral_token |-> t]) :
      t \in {<<"eph_caller">>, <<"eph_other">>} }
  \cup { Post("offer", [sdp |-> <<"v=0 offer">>]),
         Post("ephemeral-key", EmptyObj),
         Post("ephemeral-key", [temperature |-> 70]),
         Post("plivo/call", [to_number |-> <<"+15550001">>,
                             from_number |-> <<"+15550002">>,
                             instructions |-> <<"Be brief">>]) }

\* the file-system router: the handler of the requested route runs
HandlerStart(e, r) ==
  CASE r.route = "ephemeral-key" -> EphemeralKeyStart(e, r)
    [] r.route = "offer" -> OfferStart(e, r)
    [] r.route = "offer-direct" -> OfferDirectStart(e, r)
    [] r.route = "offer-legacy" -> OfferLegacyStart(e, r)
    [] r.route = "ice-servers" -> IceServersStart(e, r)
    [] r.route = "plivo/configure" -> PlivoConfigureStart(e, r)
    [] r.route = "plivo/answer" -> PlivoAnswerStart(e, r)
    [] r.route = "plivo/call" -> PlivoCallStart(e, r)

\* the handler suspended at `at` with locals loc runs on with outcome o
HandlerResume(e, r, at, loc, o) ==
  CASE r.route = "ephemeral-key" -> EphemeralKeyResume(e, r, o)
    [] r.route = "offer" -> OfferResume(e, r, o)
    [] r.route = "offer-direct" -> OfferDirectResume(e, r, o)
    [] r.route = "offer-legacy" -> OfferLegacyResume(e, r, o)
    [] r.route = "ice-servers" -> IceServersResume(e, r, o)
    [] r.route = "plivo/configure" -> PlivoConfigureResume(e, r, o)
    [] r.route = "plivo/call" ->
         IF at = "fetch" THEN PlivoCallConfigured(e, r, o)
         ELSE PlivoCallCreated(e, r, loc, o)

CallOutcomes(call) ==
  IF call.kind = "fetch" THEN FetchOutcomes(call) ELSE PlivoOutcomes

\* variant: an offer whose ephemeral token another request in flight has
\* already sent upstream is refused locally
SlotStartTokenTracked(s, r) ==
  IF /\ r.route = "offer" /\ "ephemeral_token" \in DOMAIN r.body
     /\ \E t \in Slots \ {s} :
          /\ req[t] # NoRequest /\ req[t].route = "offer" /\ outbound[t] # <<>>
          /\ "ephemeral_token" \in DOMAIN req[t].body
          /\ req[t].body["ephemeral_token"] = r.body["ephemeral_token"]
  THEN Respond(401, ErrorJson(<<"Ephemeral token already used">>), NoHeaders)
  ELSE HandlerStart(env, r)

\* the first segment of the invocation in slot s: it reads env and r only
SlotStart(s, r) == HandlerStart(env, r)

InitConcurrent ==
  /\ env \in ConcurrentEnvs
  /\ pc = [s \in Slots |-> "idle"]
  /\ req = [s \in Slots |-> NoRequest]
  /\ outbound = [s \in Slots |-> <<>>]
  /\ received = [s \in Slots |-> <<>>]
  /\ responses = [s \in Slots |-> <<>>]
  /\ locals = [s \in Slots |-> EmptyObj]
  /\ PageLoaded

ApplyAt(s, step) ==
  IF step.kind = "respond"
  THEN /\ responses' = [responses EXCEPT ![s] = Append(@, step.response)]
       /\ pc' = [pc EXCEPT ![s] = "done"]
       /\ UNCHANGED <<outbound, locals>>
  ELSE /\ outbound' = [outbound EXCEPT ![s] = Append(@, step.call)]
       /\ pc' = [pc EXCEPT ![s] = step.pc]
       /\ locals' = [locals EXCEPT ![s] = step.locals]
       /\ UNCHANGED responses

\* a request arrives and its handler runs to its first await or response
HandlerInvoked(s) ==
  /\ pc[s] = "idle"
  /\ \E r \in ConcurrentRequests :
       /\ req' = [req EXCEPT ![s] = r]
       /\ ApplyAt(s, SlotStart(s, r))
  /\ UNCHANGED <<env, received, pageVars>>

\* the call the invocation in slot s awaits settles and the handler runs on
CallSettled(s) ==
  /\ pc[s] \in {"fetch", "plivo"}
  /\ \E o \in CallOutcomes(outbound[s][Len(outbound[s])]) :
       /\ received' = [received EXCEPT ![s] = Append(@, o)]
       /\ ApplyAt(s, HandlerResume(env, req[s], pc[s], locals[s], o))
  /\ UNCHANGED <<env, req, pageVars>>

\* the invocation has responded and returns; the slot is free again
HandlerReturned(s) ==
  /\ pc[s] = "done"
  /\ pc' = [pc EXCEPT ![s] = "idle"]
  /\ req' = [req EXCEPT ![s] = NoRequest]
  /\ outbound' = [outbound EXCEPT ![s] = <<>>]
  /\ received' = [received EXCEPT ![s] = <<>>]
  /\ responses' = [responses EXCEPT ![s] = <<>>]
  /\ locals' = [locals EXCEPT ![s] = EmptyObj]
  /\ UNCHANGED <<env, pageVars>>

NextConcurrent ==
  \E s \in Slots :
    \/ HandlerInvoked(s)
    \/ CallSettled(s)
    \/ HandlerReturned(s)

SpecConcurrent == InitConcurrent /\ [][NextConcurrent]_vars

(***************************************************************************)
(* C20: requests are independent under concurrency. In every reachable     *)
(* state of every interleaving, the outbound calls and the responses of    *)
(* each request in flight are those its handler produces when run alone on *)
(* that request (method, body, query, headers), the process configuration  *)
(* and the outcomes of its own calls; and two requests that present the    *)
(* same ephemeral token (and the same sdp) have made identical upstream    *)
(* calls, no use of the token being tracked locally.                       *)
(***************************************************************************)
\* what the handler of request r does, run alone, once the calls it made
\* have produced the outcomes outs (at most two)
Alone(e, r, outs) ==
  LET s0 == HandlerStart(e, r) IN
  IF s0.kind = "respond"
  THEN [outbound |-> <<>>, responses |-> <<s0.response>>]
  ELSE IF Len(outs) = 0
  THEN [outbound |-> <<s0.call>>, responses |-> <<>>]
  ELSE LET s1 == HandlerResume(e, r, s0.pc, s0.locals, outs[1]) IN
       IF s1.kind = "respond"
       THEN [outbound |-> <<s0.call>>, responses |-> <<s1.response>>]
       ELSE IF Len(outs) = 1
       THEN [outbound |-> <<s0.call, s1.call>>, responses |-> <<>>]
       ELSE LET s2 == HandlerResume(e, r, s1.pc, s1.locals, outs[2]) IN
            [outbound |-> <<s0.call, s1.call>>,
             responses |-> IF s2.kind = "respond" THEN <<s2.response>> ELSE <<>>]

InFlight(s) == req[s] # NoRequest

PresentsToken(s) ==
  /\ InFlight(s) /\ req[s].route = "offer"
  /\ "ephemeral_token" \in DOMAIN req[s].body

ObtainedToken ==
  IF /\ Len(outbound) >= 1 /\ outbound[1].kind = "fetch" /\ Len(received) >= 1
     /\ UpstreamSuccessJson(received[1])
     /\ "config_token" \in DOMAIN received[1].body.obj
  THEN {received[1].body.obj["config_token"]}
  ELSE {}

ConfigureOnlyWithInstructions ==
  \A i \in DOMAIN outbound :
    outbound[i].kind = "fetch"
    => /\ outbound[i].url[Len(outbound[i].url)] = "/plivo/configure"
       /\ "instructions" \in DOMAIN req.body

ConfigureBeforeCreate ==
  \A k \in DOMAIN outbound :
    outbound[k].kind = "plivo"
    => \A i \in 1..(k - 1) : outbound[i].kind = "fetch" /\ i \in DOMAIN received

AnswerUrlCarriesToken(q) ==
  \A t \in ObtainedToken : q = <<"config_token", "=">> \o t

C21_CallAnswerUrlCarriesTokenOrSupplied ==
  req.route = "plivo/call"
  => /\ ConfigureOnlyWithInstructions
     /\ ConfigureBeforeCreate
     /\ \A k \in DOMAIN outbound :
          outbound[k].kind = "plivo"
          => LET q == QueryOf(outbound[k].answerUrl) IN
             IF ObtainedToken # {} THEN AnswerUrlCarriesToken(q)
             ELSE /\ "config_token" \notin Range(q)
                  /\ \A f \in {"temperature", "silence_timeout"} :
                       IF f \in DOMAIN req.body
                       THEN Contains(q, <<f, "=">> \o NumStr(req.body[f]))
                       ELSE f \notin Range(q)

(***************************************************************************)
(* C23: method gating comes first: a request whose method is not allowed   *)
(* for its endpoint (POST for ephemeral-key, the offer relays,             *)
(* plivo/configure and plivo/call; GET for ice-servers; GET or POST for    *)
(* plivo/answer) is answered 405 with {error: 'Method not allowed'} and no *)
(* outbound call is made, whatever the configuration, body and query.      *)
(***************************************************************************)
C23_MethodGatingComesFirst ==
  (req.route \in Routes /\ ~AllowedMethod(req))
  => /\ outbound = <<>>
     /\ Done
     /\ responses[1].status = 405
     /\ responses[1].body = [kind |-> "json", obj |-> [error |-> <<"Method not allowed">>]]

\* a method that is not allowed, sent to a process without configuration,
\* with a query that would otherwise be served
C23_Witness ==
  /\ Done /\ req.route = "plivo/answer" /\ req.method = "DELETE"
  /\ DOMAIN env = {}
  /\ "config_token" \in DOMAIN req.query
  /\ responses[1].status = 405 /\ outbound = <<>>

MaxAttempts == 2

\* largest number of event-log entries created since the page loaded
MaxEvents == 2

\* text.length of the transcripts the typewriter shows
TranscriptLength == 2

\* updated.slice(0, 50)
EventLogLimit == 50

Min(a, b) == IF a < b THEN a ELSE b

Page == [ui |-> ui, refs |-> refs, browser |-> browser]

WithUi(p, f, v) == [p EXCEPT !.ui[f] = v]

PresetPrompt ==
  <<"You are a professional and formal AI assistant. Be concise, precise, and maintain a business-like tone.">>

Prompts == {DefaultInstructions, PresetPrompt}

\* variant: the list is cut one entry later
addEventLogKeepsOneMore(p) ==
  LET id == p.browser.now + 1
      updated == <<id>> \o p.ui.eventLogs
  IN  [p EXCEPT !.browser.now = id,
                !.ui.eventLogs = SubSeq(updated, 1, Min(Len(updated), EventLogLimit + 1))]

\* const addEventLog = (eventType, eventData) => ...: the new entry goes
\* first and the list is cut to its first 50 entries
addEventLog(p) ==
  LET id == p.browser.now + 1
      updated == <<id>> \o p.ui.eventLogs
  IN  [p EXCEPT !.browser.now = id,
                !.ui.eventLogs = SubSeq(updated, 1, Min(Len(updated), EventLogLimit))]

\* typewriterEffect(text, role): the pending typewriter timeout is cleared,
\* a message marked as typing is appended, and typeNextChar runs once
typewriterEffect(p, role) ==
  LET appended == Append(p.ui.messages, [role |-> role, shown |-> 0, isTyping |-> TRUE])
  IN  [p EXCEPT !.refs.isTypingRef = TRUE,
                !.refs.typewriterTimeoutRef = TRUE,
                !.ui.messages = [appended EXCEPT ![Len(appended)].shown = 1],
                !.browser.typewriter = <<[currentIndex |-> 1]>>]

\* typeNextChar, called by the timeout set at its previous run; its
\* setMessages updaters change the last message when it is marked as typing
typeNextChar(p) ==
  LET currentIndex == p.browser.typewriter[1].currentIndex
      msgs == p.ui.messages
      lastIsTyping == msgs # <<>> /\ msgs[Len(msgs)].isTyping
  IN  IF currentIndex < TranscriptLength
      THEN [p EXCEPT !.ui.messages = IF lastIsTyping
                                     THEN [msgs EXCEPT ![Len(msgs)].shown = currentIndex + 1]
                                     ELSE msgs,
                     !.browser.typewriter = <<[currentIndex |-> currentIndex + 1]>>]
      ELSE [p EXCEPT !.ui.messages = IF lastIsTyping
                                     THEN [msgs EXCEPT ![Len(msgs)].isTyping = FALSE]
                                     ELSE msgs,
                     !.refs.isTypingRef = FALSE,
                     !.browser.typewriter = <<>>]

\* setTimeout(checkAndType, 100) / setTimeout(displayAssistant, 500)
WithPoller(p, role) == [p EXCEPT !.browser.pollers[role] = @ + 1]

\* startSilenceDetection(): the old interval is cleared and a new one set
startSilenceDetection(p) == [p EXCEPT !.refs.silenceDetectionIntervalRef = TRUE]

\* the events the realtime service sends on the data channel
ServerEvents ==
  { [type |-> t] :
      t \in {"session.created", "input_audio_buffer.speech_started",
             "input_audio_buffer.speech_stopped",
             "conversation.item.input_audio_transcription.completed",
             "response.audio_transcript.done", "response.done", "error"} }
  \cup { [type |-> "session.updated", session |-> session] :
           session \in { EmptyObj,
                         [instructions |-> PresetPrompt,
                          turn_detection |-> [threshold |-> 60,
                                              prefix_padding_ms |-> 200,
                                              silence_duration_ms |-> 700]] } }

\* case 'session.updated'
OnSessionUpdated(p, session) ==
  LET q == IF "instructions" \in DOMAIN session /\ TruthyStr(session["instructions"])
           THEN WithUi(p, "activePrompt", session["instructions"])
           ELSE p
  IN  IF "turn_detection" \in DOMAIN session
      THEN WithUi(q, "activeVAD", session["turn_detection"])
      ELSE q

\* variant: the user's indicator is left as it is when a response arrives
OnTranscriptDoneKeepsUser(q) ==
  startSilenceDetection(WithUi(WithPoller(q, "assistant"), "isAISpeaking", TRUE))

\* case 'response.audio_transcript.done'
OnTranscriptDone(q) ==
  startSilenceDetection(
    WithUi(WithUi(WithPoller(q, "assistant"), "isUserSpeaking", FALSE),
           "isAISpeaking", TRUE))

\* handleDataChannelMessage(data) for an event that parses; every
\* transcript is TranscriptLength characters long
handleDataChannelMessage(p, event) ==
  LET q == addEventLog(p)
  IN  CASE event.type = "session.updated" -> OnSessionUpdated(q, event.session)
        [] event.type = "input_audio_buffer.speech_started" ->
             WithUi(WithUi(q, "isUserSpeaking", TRUE), "isAISpeaking", FALSE)
        [] event.type = "input_audio_buffer.speech_stopped" ->
             WithUi(q, "isUserSpeaking", FALSE)
        [] event.type = "conversation.item.input_audio_transcription.completed" ->
             IF q.refs.isTypingRef THEN WithPoller(q, "user")
             ELSE typewriterEffect(q, "user")
        [] event.type = "response.audio_transcript.done" -> OnTranscriptDone(q)
        [] event.type = "response.done" -> WithUi(q, "isAISpeaking", FALSE)
        [] event.type = "error" ->
             WithUi(WithUi(q, "isUserSpeaking", FALSE), "isAISpeaking", FALSE)
        [] OTHER -> q

\* dataChannelRef.current is set and its readyState is 'open'
ChannelReady(p) ==
  p.refs.dataChannelRef # 0 /\ p.browser.pcs[p.refs.dataChannelRef].channel = "open"

\* variant: the update is written to the event log before the channel is
\* looked at
updateSessionLogsFirst(p) ==
  LET q == addEventLog(p)
      updateEvent == [type |-> "session.update",
                      instructions |-> p.ui.systemPrompt,
                      turn_detection |-> DefaultVAD]
  IN  IF ~ChannelReady(p) THEN q
      ELSE [q EXCEPT !.browser.sent = Append(@, updateEvent),
                     !.browser.hintTimers = @ + 1,
                     !.ui.hint = "Session update sent - watch Event Log!"]

updateSession(p) ==
  IF ~ChannelReady(p) THEN p
  ELSE LET q == addEventLog(p)
           updateEvent == [type |-> "session.update",
                           instructions |-> p.ui.systemPrompt,
                           turn_detection |-> DefaultVAD]
       IN  [q EXCEPT !.browser.sent = Append(@, updateEvent),
                     !.browser.hintTimers = @ + 1,
                     !.ui.hint = "Session update sent - watch Event Log!"]

closeConnection(p) ==
  LET closedPcs == [i \in DOMAIN p.browser.pcs |->
                      IF i = p.refs.pcRef
                      THEN [p.browser.pcs[i] EXCEPT !.connectionState = "closed",
                                                    !.channel = "closed"]
                      ELSE IF i = p.refs.dataChannelRef
                      THEN [p.browser.pcs[i] EXCEPT !.channel = "closed"]
                      ELSE p.browser.pcs[i]]
  IN  [p EXCEPT !.browser.typewriter = <<>>,
                !.browser.pcs = closedPcs,
                !.refs.typewriterTimeoutRef = FALSE,
                !.refs.silenceDetectionIntervalRef = FALSE,
                !.refs.dataChannelRef = 0,
                !.refs.pcRef = 0,
                !.refs.isTypingRef = FALSE,
                !.ui.isUserSpeaking = FALSE,
                !.ui.isAISpeaking = FALSE,
                !.ui.isConnected = FALSE,
                !.ui.hint = "Click Connect to start"]

\* initWebRTC from its guard to its first await: fetchIceServers() is called
StartInit(p) ==
  [p EXCEPT !.refs.isInitializingRef = TRUE,
            !.ui.hint = "Connecting...",
            !.ui.activePrompt = p.ui.systemPrompt,
            !.ui.activeVAD = DefaultVAD,
            !.browser.fetches = Append(@, [url |-> "/api/ice-servers", method |-> "GET",
                                           body |-> EmptyObj]),
            !.browser.inits = Append(@, [at |-> "ice", pc |-> 0,
                                         systemPrompt |-> p.ui.systemPrompt,
                                         result |-> "pending"])]

initWebRTC(p) ==
  IF p.refs.isInitializingRef THEN p ELSE StartInit(p)

\* !pcRef.current || connectionState === 'closed' || connectionState === 'failed'
NoLivePc(p) ==
  \/ p.refs.pcRef = 0
  \/ p.browser.pcs[p.refs.pcRef].connectionState \in {"closed", "failed"}

\* variant: handleConnect starts initWebRTC whatever the refs hold
handleConnectUnguarded(p) ==
  StartInit([p EXCEPT !.ui.messages = <<>>, !.ui.eventLogs = <<>>])

handleConnect(p) ==
  IF NoLivePc(p) /\ ~p.refs.isInitializingRef
  THEN initWebRTC([p EXCEPT !.ui.messages = <<>>, !.ui.eventLogs = <<>>])
  ELSE p

(***************************************************************************)
(* The dashboard's steps: clicks, awaited results, events and timers       *)
(***************************************************************************)
\* the two hints with a bullet, written here with a dash
HintFailed == "Connection failed - Try again"
HintListening == "Speak naturally - AI is listening"

Becomes(p) ==
  /\ ui' = p.ui
  /\ refs' = p.refs
  /\ browser' = p.browser
  /\ UNCHANGED serverVars

\* what the handlers bound to one RTCPeerConnection and its channel see
NewConnection ==
  [connectionState |-> "new", channel |-> "connecting",
   localDescription |-> FALSE, remoteDescription |-> FALSE]

WithInit(p, k, at, result) ==
  [p EXCEPT !.browser.inits[k].at = at, !.browser.inits[k].result = result]

\* the catch block of initWebRTC
InitCaught(p, k) ==
  LET q == WithInit(p, k, "ended", "init error")
  IN  [q EXCEPT !.ui.hint = "Please allow microphone access and reload",
                !.ui.isConnected = FALSE,
                !.refs.isInitializingRef = FALSE]

\* the body JSON.stringify(config) of the dashboard's offer
OfferConfig(prompt) ==
  [sdp |-> <<"v=0 offer">>,
   custom_prompt |-> prompt,
   temperature |-> DefaultTemperature,
   top_p |-> DefaultTopP,
   top_k |-> DefaultTopK,
   vad_threshold |-> DefaultThreshold,
   vad_prefix_padding_ms |-> DefaultPrefixPaddingMs,
   vad_silence_duration_ms |-> DefaultSilenceDurationMs]

\* the handler files that can be deployed as pages/api/offer.ts
OfferRoutes == {"offer", "offer-legacy"}

\* .then(response => { if (!response.ok) throw ... }) for every way the
\* fetch can settle: a response of the deployed handler, or a rejected fetch
OfferSettlesOk(e, route, body) ==
  LET r == Post(route, body)
      step == HandlerStart(e, r)
      served == IF step.kind = "respond" THEN {step.response}
                ELSE { HandlerResume(e, r, step.pc, step.locals, o).response :
                         o \in CallOutcomes(step.call) }
  IN  { Ok(resp.status) : resp \in served } \cup {FALSE}

\* Connect is rendered while !isConnected
ClickConnect ==
  /\ ~ui.isConnected
  /\ Len(browser.inits) < MaxAttempts \/ handleConnect(Page) = Page
  /\ Becomes(handleConnect(Page))

\* Disconnect is rendered while isConnected
ClickDisconnect ==
  /\ ui.isConnected
  /\ Becomes(closeConnection(Page))

promptChanged == ui.isConnected /\ ui.systemPrompt # ui.activePrompt
vadChanged == ui.isConnected /\ DefaultVAD # ui.activeVAD

\* Update Session is rendered while promptChanged || vadChanged
UpdateSessionClicked(limit) ==
  /\ promptChanged \/ vadChanged
  /\ browser.now < limit
  /\ Becomes(updateSession(Page))

ClickUpdateSession == UpdateSessionClicked(MaxEvents)

\* onClick={() => setEventLogs([])}
ClickClearEvents ==
  /\ ui.eventLogs # <<>>
  /\ Becomes(WithUi(Page, "eventLogs", <<>>))

\* the prompt textarea and the preset buttons
EditPrompt ==
  \E prompt \in Prompts \ {ui.systemPrompt} :
    Becomes(WithUi(Page, "systemPrompt", prompt))

\* await fetchIceServers() returns (it never throws); the connection and
\* its data channel are created and the microphone is asked for
IceServersFetched(k) ==
  /\ browser.inits[k].at = "ice"
  /\ LET i == Len(browser.pcs) + 1
         q == [Page EXCEPT !.browser.pcs = Append(@, NewConnection),
                           !.browser.inits[k].pc = i,
                           !.refs.pcRef = i,
                           !.refs.dataChannelRef = i]
     IN  Becomes(WithInit(q, k, "media", "pending"))

\* getUserMedia resolves; createOffer and setLocalDescription follow, and
\* throw on a connection that was closed meanwhile
MediaGranted(k) ==
  /\ browser.inits[k].at = "media"
  /\ LET i == browser.inits[k].pc
     IN  IF browser.pcs[i].connectionState = "closed"
         THEN Becomes(InitCaught(Page, k))
         ELSE Becomes(WithInit([Page EXCEPT !.browser.pcs[i].localDescription = TRUE],
                               k, "gathering", "pending"))

\* getUserMedia rejects
MediaDenied(k) ==
  /\ browser.inits[k].at = "media"
  /\ Becomes(InitCaught(Page, k))

\* pc.onicecandidate with a null candidate: the offer is posted
IceGatheringComplete(k) ==
  /\ browser.inits[k].at = "gathering"
  /\ browser.pcs[browser.inits[k].pc].connectionState # "closed"
  /\ LET config == OfferConfig(browser.inits[k].systemPrompt)
         q == [Page EXCEPT !.browser.fetches =
                             Append(@, [url |-> "/api/offer", method |-> "POST",
                                        body |-> config])]
     IN  Becomes(WithInit(q, k, "offer", "pending"))

\* the promise chain on the offer fetch: then, catch and finally
OfferAnswered(k) ==
  /\ browser.inits[k].at = "offer"
  /\ LET i == browser.inits[k].pc
         config == OfferConfig(browser.inits[k].systemPrompt)
     IN  \E ok \in OfferSettlesOk(env, browser.offerRoute, config), valid \in BOOLEAN :
           LET q == [Page EXCEPT !.refs.isInitializingRef = FALSE]
           IN  IF ok /\ valid /\ browser.pcs[i].connectionState # "closed"
               THEN Becomes(WithInit([q EXCEPT !.browser.pcs[i].remoteDescription = TRUE],
                                     k, "ended", "established"))
               ELSE Becomes(WithInit(WithUi(q, "hint", HintFailed),
                                     k, "ended", "offer failed"))

\* pc.onconnectionstatechange with connectionState 'connected'
PeerConnected(i) ==
  /\ browser.pcs[i].remoteDescription
  /\ browser.pcs[i].connectionState \in {"new", "disconnected"}
  /\ Becomes([Page EXCEPT !.browser.pcs[i].connectionState = "connected",
                          !.ui.isConnected = TRUE,
                          !.ui.hint = HintListening])

\* pc.onconnectionstatechange with connectionState 'disconnected'
PeerDisconnected(i) ==
  /\ browser.pcs[i].connectionState = "connected"
  /\ Becomes([Page EXCEPT !.browser.pcs[i].connectionState = "disconnected",
                          !.ui.isConnected = FALSE])

\* pc.onconnectionstatechange with connectionState 'failed'; the transport
\* and with it the data channel are gone
PeerFailed(i) ==
  /\ browser.pcs[i].remoteDescription
  /\ browser.pcs[i].connectionState \in {"new", "connected", "disconnected"}
  /\ Becomes([Page EXCEPT !.browser.pcs[i].connectionState = "failed",
                          !.browser.pcs[i].channel = "closed",
                          !.ui.isConnected = FALSE,
                          !.ui.hint = HintFailed])

\* dataChannel.onopen
ChannelOpened(i) ==
  /\ browser.pcs[i].connectionState = "connected"
  /\ browser.pcs[i].channel = "connecting"
  /\ Becomes([Page EXCEPT !.browser.pcs[i].channel = "open",
                          !.ui.hint = HintListening])

\* dataChannel.onmessage
MessageReceived(i, events, limit) ==
  /\ browser.pcs[i].connectionState = "connected"
  /\ browser.pcs[i].channel = "open"
  /\ browser.now < limit
  /\ \E event \in events : Becomes(handleDataChannelMessage(Page, event))

DataChannelMessage(i) == MessageReceived(i, ServerEvents, MaxEvents)

\* the timeout of typeNextChar fires
TypewriterTimerFires ==
  /\ browser.typewriter # <<>>
  /\ Becomes(typeNextChar(Page))

\* checkAndType / displayAssistant runs and finds nothing being typed; a
\* run that finds isTypingRef set only schedules itself again
PollerFires(role) ==
  /\ browser.pollers[role] > 0
  /\ ~refs.isTypingRef
  /\ Becomes(typewriterEffect([Page EXCEPT !.browser.pollers[role] = @ - 1], role))

\* the interval of startSilenceDetection sees its eighth silent frame
SilenceDetected ==
  /\ refs.silenceDetectionIntervalRef
  /\ ui.isAISpeaking
  /\ Becomes(WithUi(Page, "isAISpeaking", FALSE))

\* the 3000 ms timeout of updateSession fires
HintTimerFires ==
  /\ browser.hintTimers > 0
  /\ Becomes([Page EXCEPT !.browser.hintTimers = @ - 1,
                          !.ui.hint = HintListening])

\* the process that serves the page is configured, its BACKEND_URL written
\* without a trailing slash
InitDashboard ==
  /\ env \in { e \in ConcurrentEnvs :
                StripTrailingSlash(e["BACKEND_URL"]) = e["BACKEND_URL"] }
  /\ ServerIdle
  /\ ui = InitialUi
  /\ refs = InitialRefs
  /\ \E route \in OfferRoutes : browser = [InitialBrowser EXCEPT !.offerRoute = route]

NextDashboard ==
  \/ ClickConnect
  \/ ClickDisconnect
  \/ ClickUpdateSession
  \/ ClickClearEvents
  \/ EditPrompt
  \/ \E k \in DOMAIN browser.inits : IceServersFetched(k)
  \/ \E k \in DOMAIN browser.inits : MediaGranted(k)
  \/ \E k \in DOMAIN browser.inits : MediaDenied(k)
  \/ \E k \in DOMAIN browser.inits : IceGatheringComplete(k)
  \/ \E k \in DOMAIN browser.inits : OfferAnswered(k)
  \/ \E i \in DOMAIN browser.pcs : PeerConnected(i)
  \/ \E i \in DOMAIN browser.pcs : PeerDisconnected(i)
  \/ \E i \in DOMAIN browser.pcs : PeerFailed(i)
  \/ \E i \in DOMAIN browser.pcs : ChannelOpened(i)
  \/ \E i \in DOMAIN browser.pcs : DataChannelMessage(i)
  \/ TypewriterTimerFires
  \/ \E role \in {"user", "assistant"} : PollerFires(role)
  \/ SilenceDetected
  \/ HintTimerFires

SpecDashboard == InitDashboard /\ [][NextDashboard]_vars

(***************************************************************************)
(* C22                                                                     *)
(***************************************************************************)
OfferFetches == { n \in DOMAIN browser.fetches : browser.fetches[n].url = "/api/offer" }

\* the validation of the ephemeral relay lets the body through to its fetch
PassesEphemeralRelay(body) == OfferStart(env, Post("offer", body)).kind = "call"

\* C22: with the ephemeral method, the dashboard posts its offer to
\* /api/offer only after it has fetched /api/ephemeral-key, and the body
\* carries ephemeral_token with sdp, so the ephemeral relay's validation
\* accepts it.
C22_OfferFollowsEphemeralKey ==
  \A n \in OfferFetches :
    /\ \E m \in 1..(n - 1) : browser.fetches[m].url = "/api/ephemeral-key"
    /\ {"sdp", "ephemeral_token"} \subseteq DOMAIN browser.fetches[n].body
    /\ PassesEphemeralRelay(browser.fetches[n].body)

(***************************************************************************)
(* C26                                                                     *)
(***************************************************************************)
InitsInFlight(b) == { k \in DOMAIN b.inits : b.inits[k].at # "ended" }

LivePcs(b) == { i \in DOMAIN b.pcs : b.pcs[i].connectionState \notin {"closed", "failed"} }

\* the step creates an RTCPeerConnection
CreatesPc == Len(browser'.pcs) > Len(browser.pcs)

\* the step calls initWebRTC past its guard
StartsInit == Len(browser'.inits) > Len(browser.inits)

\* C26: at most one WebRTC initialization is in progress and at most one
\* peer connection is live; initWebRTC starts only when none is in flight
\* and the current connection is absent, closed or failed, and a new
\* RTCPeerConnection is created only by the one initialization in flight
\* while no other connection is live.
C26_OneInitOnePeerConnection ==
  /\ [](Cardinality(InitsInFlight(browser)) <= 1 /\ Cardinality(LivePcs(browser)) <= 1)
  /\ [][/\ StartsInit => InitsInFlight(browser) = {} /\ NoLivePc(Page)
        /\ CreatesPc => Cardinality(InitsInFlight(browser)) = 1 /\ LivePcs(browser) = {}]_vars

\* a second connection has been created after the first was closed or failed
C26_Witness ==
  /\ Len(browser.pcs) = 2
  /\ browser.pcs[1].connectionState \in {"closed", "failed"}
  /\ LivePcs(browser) = {2}

(***************************************************************************)
(* C27                                                                     *)
(***************************************************************************)
\* the latest attempt ended in the catch of the offer fetch, whose hint is
\* still shown
OfferExchangeFailed ==
  /\ browser.inits # <<>>
  /\ browser.inits[Len(browser.inits)].result = "offer failed"
  /\ ui.hint = HintFailed
  /\ ~ui.isConnected

\* a click on Connect now gets past both guards of handleConnect
ConnectStartsInit == Len(handleConnect(Page).browser.inits) > Len(browser.inits)

\* C27: after the offer exchange has failed and the hint reads 'Connection
\* failed - Try again', a click on Connect starts a new initWebRTC, without
\* Disconnect or a reload in between.
C27_FailedAttemptCanBeRetried == OfferExchangeFailed => ConnectStartsInit

(***************************************************************************)
(* C28                                                                     *)
(***************************************************************************)
TypingMessages == { n \in DOMAIN ui.messages : ui.messages[n].isTyping }

\* C28: in every reachable state at most one message has isTyping = true,
\* whatever data-channel events arrive, timers fire, and whenever
\* Disconnect and Connect are clicked.
C28_AtMostOneTypingMessage == Cardinality(TypingMessages) <= 1

(***************************************************************************)
(* C29                                                                     *)
(***************************************************************************)
\* C29: the two speaking indicators are never on together: in every
\* reachable state isUserSpeaking and isAISpeaking are not both true.
C29_SpeakingIndicatorsExclusive == ~(ui.isUserSpeaking /\ ui.isAISpeaking)

\* the assistant's indicator is on after the user's was: the transcript of
\* a response arrived while the user was shown as speaking
C29_Witness ==
  /\ ui.isAISpeaking
  /\ ~ui.isUserSpeaking
  /\ Len(ui.eventLogs) = 2
  /\ refs.silenceDetectionIntervalRef

(***************************************************************************)
(* C30                                                                     *)
(***************************************************************************)
\* what the claim says updateSession must leave alone
SessionView(p) ==
  <<p.browser.sent, p.ui.eventLogs, p.ui.hint, p.ui.activePrompt, p.ui.activeVAD>>

ActiveSettingsChange ==
  ui'.activePrompt # ui.activePrompt \/ ui'.activeVAD # ui.activeVAD

\* the step is handleDataChannelMessage on a session.updated event
HandlesSessionUpdated ==
  \E event \in ServerEvents :
    /\ event.type = "session.updated"
    /\ [ui |-> ui', refs |-> refs', browser |-> browser'] =
         handleDataChannelMessage(Page, event)

\* C30: updateSession called while the data channel is absent or not open
\* sends nothing and leaves the event log, the hint, activePrompt and
\* activeVAD as they are; activePrompt and activeVAD change only at the
\* start of initWebRTC or when a session.updated event is handled.
C30_UpdateSessionNeedsOpenChannel ==
  /\ [](~ChannelReady(Page) => SessionView(updateSession(Page)) = SessionView(Page))
  /\ [][ActiveSettingsChange => StartsInit \/ HandlesSessionUpdated]_vars

\* Update Session is on screen while the data channel is still connecting
C30_Witness ==
  /\ promptChanged
  /\ refs.dataChannelRef # 0
  /\ browser.pcs[refs.dataChannelRef].channel = "connecting"
  /\ updateSession(Page) = Page

(***************************************************************************)
(* The dashboard in a long session: the prompt is left as it is, the       *)
(* service sends only session events, and the session is over before a    *)
(* hint timeout fires                                                      *)
(***************************************************************************)
\* largest number of event-log entries created in a long session
MaxLogged == 52

SessionEvents == { event \in ServerEvents : event.type \in {"session.created", "session.updated"} }

NextEventLog ==
  \/ ClickConnect
  \/ ClickDisconnect
  \/ UpdateSessionClicked(MaxLogged)
  \/ ClickClearEvents
  \/ \E k \in DOMAIN browser.inits : IceServersFetched(k)
  \/ \E k \in DOMAIN browser.inits : MediaGranted(k)
  \/ \E k \in DOMAIN browser.inits : IceGatheringComplete(k)
  \/ \E k \in DOMAIN browser.inits : OfferAnswered(k)
  \/ \E i \in DOMAIN browser.pcs : PeerConnected(i)
  \/ \E i \in DOMAIN browser.pcs : ChannelOpened(i)
  \/ \E i \in DOMAIN browser.pcs : MessageReceived(i, SessionEvents, MaxLogged)

SpecEventLog == InitDashboard /\ [][NextEventLog]_vars

(***************************************************************************)
(* C25                                                                     *)
(***************************************************************************)
\* ids grow with time, so newest first is strictly decreasing
NewestFirst(logs) == \A a, b \in DOMAIN logs : a < b => logs[a] > logs[b]

\* the step calls addEventLog
LogsEvent == browser'.now > browser.now

\* the new entry is first and the old ones follow in their order; when the
\* list was full, the entry left out is its last, the oldest
DropsOldest ==
  /\ ui'.eventLogs # <<>>
  /\ ui'.eventLogs[1] = browser'.now
  /\ Tail(ui'.eventLogs) =
       SubSeq(ui.eventLogs, 1, Min(Len(ui.eventLogs), EventLogLimit - 1))

\* C25: after any sequence of addEventLog calls (events received and
\* session.update sent), Clear and Connect, eventLogs holds at most 50
\* entries, newest first, and an entry that is dropped is the oldest.
C25_EventLogKeepsLastFifty ==
  /\ [](Len(ui.eventLogs) <= EventLogLimit /\ NewestFirst(ui.eventLogs))
  /\ [][LogsEvent => DropsOldest]_vars

\* the list is full, more entries were created than it holds, and among
\* them are session.update entries
C25_Witness ==
  /\ Len(ui.eventLogs) = EventLogLimit
  /\ browser.now > EventLogLimit
  /\ ui.eventLogs[EventLogLimit] = browser.now - EventLogLimit + 1
  /\ browser.sent # <<>>

====
